---- MODULE Spec2Model ----
(***************************************************************************)
(* OpsYield core: the provider status cache (providers/factory.py), the    *)
(* analysis orchestrator (core/orchestrator.py) and the aggregation engine *)
(* (core/aggregation.py).                                                  *)
(*                                                                         *)
(* Time is the monotonic clock in seconds.  The event loop's own steps     *)
(* (waking a lock waiter, finishing a gather, firing a due timer) take no  *)
(* clock time: the clock advances only when no such step is pending.       *)
(***************************************************************************)
EXTENDS Integers, Sequences, FiniteSets, TLC

\* ------------------------------------------------------------------ bounds
NumCallers == 2
MaxCalls == 3
MaxTime == 80
ClockStep == 20

\* ------------------------------------------------------- program constants
_CACHE_TTL == 60
StatusTimeout == 20

\* factory.py:109-113, in dict order
provider_names == <<"gcp", "aws", "azure">>

_providers == {provider_names[i] : i \in 1..Len(provider_names)}

Callers == 1..NumCallers

NoCaller == 0

\* ------------------------------------------------------------ status values
\* What an adapter's get_status may return (aws/__init__.py:67-104).
AdapterStatuses ==
    { [installed |-> TRUE, authenticated |-> TRUE, error |-> <<>>, debug |-> "cli"],
      [installed |-> FALSE, authenticated |-> FALSE,
       error |-> <<"CLI not found on PATH">>, debug |-> "cli"] }

\* factory.py:60-67
TimedOutStatus ==
    [installed |-> TRUE, authenticated |-> FALSE,
     error |-> <<"Status check timed out after", "20.0s">>, debug |-> "timeout"]

\* What an adapter's get_status may raise: an exception of its own, or the
\* asyncio.TimeoutError of a wait it makes itself.
RaisedExceptions == { [type |-> "RuntimeError", text |-> <<"boom">>] }

RaisedTimeoutError == [type |-> "TimeoutError", text |-> <<"inner wait timed out">>]

\* factory.py:69-76: str(e) is the error
ExceptionStatus(e) ==
    [installed |-> FALSE, authenticated |-> FALSE,
     error |-> e.text, debug |-> "exception"]

\* factory.py:194-199
_fail(n) ==
    [installed |-> FALSE, authenticated |-> FALSE,
     error |-> <<"Failed to instantiate", n>>]

NoStatus == [pending |-> TRUE]

\* safe_status with the timeout folded into the generic failure branch.
safe_status_timeout_as_failure(outcome) ==
    CASE outcome.kind = "returned" -> outcome.value
      [] outcome.kind = "timeout" -> ExceptionStatus([text |-> <<"TimeoutError">>])
      [] outcome.kind = "raised" -> ExceptionStatus(outcome)

\* safe_status letting the exception of get_status through.
safe_status_reraise(outcome) ==
    CASE outcome.kind = "returned" -> outcome.value
      [] outcome.kind = "timeout" -> TimedOutStatus
      [] outcome.kind = "raised" -> [exception |-> outcome.type]

\* factory.py:53-76: what safe_status makes of the awaited get_status under
\* wait_for.  A returned value passes through unchanged; a timeout and an
\* exception each become a status; nothing is re-raised.  The first except
\* clause (factory.py:60) takes every asyncio.TimeoutError that leaves the
\* await, the one wait_for raises at the deadline and one get_status raised
\* itself; the second (factory.py:69) takes the other exceptions.
safe_status(outcome) ==
    CASE outcome.kind = "returned" -> outcome.value
      [] outcome.kind = "timeout" -> TimedOutStatus
      [] outcome.kind = "raised" ->
            IF outcome.type = "TimeoutError" THEN TimedOutStatus
            ELSE ExceptionStatus(outcome)

\* A task that ends by raising (gather, return_exceptions=False, re-raises it).
Raises(r) == "exception" \in DOMAIN r

EmptyDict == [k \in {} |-> NoStatus]

NoOutcome == [kind |-> "none"]

VARIABLES
    now,                \* time.monotonic()
    _status_cache,      \* factory.py:30
    _cache_timestamp,   \* factory.py:31
    lockHolder,         \* _cache_lock: the caller inside `async with`
    lockWaiters,        \* _cache_lock: FIFO of callers suspended in acquire
    pc,                 \* per caller: "idle", "waiting", "probing", "done", "raised"
    t0,                 \* per caller: local t0
    instances,          \* per caller: per provider index, adapter constructed?
    task,               \* per caller: per provider index, "none" | "running" | "done"
    results,            \* per caller: per provider index, the task's result
    returned,           \* the mapping handed back by the latest return
    calls,              \* number of get_all_statuses calls made so far
    probes,             \* per provider: number of get_status invocations so far
    failed,             \* per provider: number of failed constructions so far
    refreshes,          \* number of refreshes started so far
    cacheGen,           \* which refresh produced the cached snapshot (0: none)
    myRefresh,          \* per caller: the refresh it is running (0: none)
    retGen,             \* per caller: which refresh produced what it got back
    hitRet,             \* per caller: its last return was a cache hit
    arrivedDuring,      \* per caller: the refresh in flight when it called (0: none)
    lastOutcome         \* per provider: what its latest probe did

statusVars ==
    <<now, _status_cache, _cache_timestamp, lockHolder, lockWaiters, pc, t0,
      instances, task, results, returned, calls, probes, failed, refreshes,
      cacheGen, myRefresh, retGen, hitRet, arrivedDuring, lastOutcome>>

VARIABLES
    req,                \* the awaited orchestrator call: its kind and names
    analyses,           \* per requested name: the analyze coroutine
    completion,         \* the indices of the analyze coroutines, as they ended
    response            \* what the awaited orchestrator call ended with

orchVars == <<req, analyses, completion, response>>

VARIABLES
    fnInput,            \* the argument of the function being applied
    fnBefore,           \* the argument as it was when the call was made
    fnOutput            \* what the call returned

fnVars == <<fnInput, fnBefore, fnOutput>>

VARIABLES
    retryArgs,          \* the decorator's arguments and the wrapped function
    retryPc,            \* the wrapper: "idle", "calling", "sleeping", "returned", "raised"
    attempt,            \* helpers.py:42, 58: the loop variable
    last_exception,     \* helpers.py:41, 57
    func_calls,         \* what each call of the wrapped function did, in order
    sleeps,             \* the sleeps made so far, in order
    retryResult         \* what the wrapper returned or raised

retryVars ==
    <<retryArgs, retryPc, attempt, last_exception, func_calls, sleeps, retryResult>>

VARIABLES
    gatherArgs,         \* gather_with_limit: limit and what each coroutine does
    gatherPc,           \* the call: "idle", "gathering", "returned", "raised"
    limited,            \* per coroutine: "created", "waiting", "running", "done"
    semValue,           \* asyncio.Semaphore._value
    semWaiters,         \* asyncio.Semaphore._waiters, FIFO
    taskOutcomes,           \* per coroutine: what its limited() task ended with
    gatherResult        \* what gather_with_limit returned or raised

gatherVars ==
    <<gatherArgs, gatherPc, limited, semValue, semWaiters, taskOutcomes, gatherResult>>

VARIABLES
    apiArgs,            \* the request: providers string, what the orchestrator does
    apiPc,              \* the handler: "idle", "awaiting", "responded"
    provider_list,      \* server.py:102
    orchestratorCalls,  \* number of aggregate_analysis calls made
    apiResponse         \* the HTTP response

apiVars == <<apiArgs, apiPc, provider_list, orchestratorCalls, apiResponse>>

VARIABLES
    _configured,        \* logging.py:92
    root_level,         \* the level of the "opsyield" logger
    root_handlers,      \* the handlers of the "opsyield" logger
    logCalls            \* the calls of configure_logging made, in order

logVars == <<_configured, root_level, root_handlers, logCalls>>

VARIABLES
    _token,             \* entry.py:47  TokenCache._token
    _expiry,            \* entry.py:48  TokenCache._expiry
    _lock,              \* entry.py:49  the thread holding the lock, or NoThread
    wallClock,          \* time.time()
    threads,            \* per thread: the call it is in and its locals
    stored              \* the writes of set_token to _token, in order

tokenVars == <<_token, _expiry, _lock, wallClock, threads, stored>>

\* The state of the utilities and of the API layer.
utilVars == <<gatherVars, apiVars, logVars, tokenVars>>

vars == <<statusVars, orchVars, fnVars, retryVars, utilVars>>

nonStatusVars == <<orchVars, fnVars, retryVars, utilVars>>

nonOrchVars == <<statusVars, fnVars, retryVars, utilVars>>

nonFnVars == <<statusVars, orchVars, retryVars, utilVars>>

nonRetryVars == <<statusVars, orchVars, fnVars, utilVars>>

nonGatherVars == <<statusVars, orchVars, fnVars, retryVars, apiVars, logVars, tokenVars>>

nonApiVars == <<statusVars, orchVars, fnVars, retryVars, gatherVars, logVars, tokenVars>>

nonLogVars == <<statusVars, orchVars, fnVars, retryVars, gatherVars, apiVars, tokenVars>>

nonTokenVars == <<statusVars, orchVars, fnVars, retryVars, gatherVars, apiVars, logVars>>

ProvIdx == 1..Len(provider_names)

IndexOf(p) == CHOOSE i \in ProvIdx : provider_names[i] = p

InitStatus ==
    /\ now = 0
    /\ _status_cache = EmptyDict
    /\ _cache_timestamp = 0
    /\ lockHolder = NoCaller
    /\ lockWaiters = <<>>
    /\ pc = [c \in Callers |-> "idle"]
    /\ t0 = [c \in Callers |-> 0]
    /\ instances = [c \in Callers |-> [i \in ProvIdx |-> FALSE]]
    /\ task = [c \in Callers |-> [i \in ProvIdx |-> "none"]]
    /\ results = [c \in Callers |-> [i \in ProvIdx |-> NoStatus]]
    /\ returned = EmptyDict
    /\ calls = 0
    /\ probes = [p \in _providers |-> 0]
    /\ failed = [p \in _providers |-> 0]
    /\ refreshes = 0
    /\ cacheGen = 0
    /\ myRefresh = [c \in Callers |-> 0]
    /\ retGen = [c \in Callers |-> 0]
    /\ hitRet = [c \in Callers |-> FALSE]
    /\ arrivedDuring = [c \in Callers |-> 0]
    /\ lastOutcome = [p \in _providers |-> NoOutcome]

\* The freshness test with the boundary second counted as fresh.
CacheHitInclusive(cache, ts, t) == DOMAIN cache # {} /\ (t - ts) <= _CACHE_TTL

\* factory.py:164
CacheHit(cache, ts, t) == DOMAIN cache # {} /\ (t - ts) < _CACHE_TTL

\* The lock given up before the probes are awaited.
ReleasedDuringProbes(c) == NoCaller

\* factory.py:160-204: gather is awaited inside `async with _cache_lock`, so
\* the lock stays with the refreshing caller while the probes are in flight.
HolderDuringProbes(c) == c

\* The snapshot built from the constructed adapters only.
BuildStatusesConstructedOnly(res, elapsed) ==
    [k \in {q \in _providers : "debug" \in DOMAIN res[IndexOf(q)]} \cup {"_meta"} |->
        IF k = "_meta"
        THEN [elapsed_ms |-> elapsed * 1000, env |-> "env"]
        ELSE res[IndexOf(k)]]

\* factory.py:209-217
BuildStatuses(res, elapsed) ==
    [k \in _providers \cup {"_meta"} |->
        IF k = "_meta"
        THEN [elapsed_ms |-> elapsed * 1000, env |-> "env"]
        ELSE res[IndexOf(k)]]

\* The refresh some caller has in flight (0: none).
InFlight ==
    IF \E d \in Callers : pc[d] = "probing"
    THEN myRefresh[CHOOSE d \in Callers : pc[d] = "probing"]
    ELSE 0

\* factory.py:160-204, from the acquisition of the lock to the first
\* suspension: the freshness check, and on a miss the construction of every
\* adapter (factory.py:180-185) and the start of every status task
\* (factory.py:189-204).
Enter(c) ==
    /\ IF CacheHit(_status_cache, _cache_timestamp, now)
       THEN /\ returned' = _status_cache
            /\ retGen' = [retGen EXCEPT ![c] = cacheGen]
            /\ hitRet' = [hitRet EXCEPT ![c] = TRUE]
            /\ pc' = [pc EXCEPT ![c] = "done"]
            /\ lockHolder' = NoCaller
            /\ UNCHANGED <<t0, instances, task, results, probes, failed,
                           refreshes, myRefresh, lastOutcome>>
       ELSE \E ok \in [ProvIdx -> BOOLEAN] :
            /\ t0' = [t0 EXCEPT ![c] = now]
            /\ instances' = [instances EXCEPT ![c] = ok]
            /\ task' = [task EXCEPT ![c] =
                          [i \in ProvIdx |-> IF ok[i] THEN "running" ELSE "done"]]
            /\ results' = [results EXCEPT ![c] =
                             [i \in ProvIdx |->
                                IF ok[i] THEN NoStatus ELSE _fail(provider_names[i])]]
            /\ probes' = [p \in _providers |->
                            IF ok[IndexOf(p)] THEN probes[p] + 1 ELSE probes[p]]
            /\ failed' = [p \in _providers |->
                            IF ok[IndexOf(p)] THEN failed[p] ELSE failed[p] + 1]
            /\ lastOutcome' = [p \in _providers |->
                                 IF ok[IndexOf(p)] THEN [kind |-> "running"]
                                 ELSE [kind |-> "unconstructed"]]
            /\ refreshes' = refreshes + 1
            /\ myRefresh' = [myRefresh EXCEPT ![c] = refreshes + 1]
            /\ pc' = [pc EXCEPT ![c] = "probing"]
            /\ lockHolder' = HolderDuringProbes(c)
            /\ hitRet' = [hitRet EXCEPT ![c] = FALSE]
            /\ UNCHANGED <<returned, retGen>>
    /\ UNCHANGED <<now, _status_cache, _cache_timestamp, cacheGen>>

\* The calls in progress.
Pending == Cardinality({c \in Callers : pc[c] \in {"waiting", "probing"}})

\* The clock, which stops at MaxTime, still has room for the calls in
\* progress and one more, each running to its timeout after the one before.
CanEndInTime ==
    now + (Pending + 1) * ClockStep * ((StatusTimeout + ClockStep - 1) \div ClockStep)
        <= MaxTime

\* A caller invokes get_all_statuses (factory.py:142-160): it enters at once
\* when the lock is free and nobody waits, and queues otherwise.
Call(c) ==
    /\ pc[c] \in {"idle", "done", "raised"}
    /\ calls < MaxCalls
    /\ CanEndInTime
    /\ calls' = calls + 1
    /\ arrivedDuring' = [arrivedDuring EXCEPT ![c] = InFlight]
    /\ IF lockHolder = NoCaller /\ lockWaiters = <<>>
       THEN /\ Enter(c)
            /\ UNCHANGED lockWaiters
       ELSE /\ pc' = [pc EXCEPT ![c] = "waiting"]
            /\ lockWaiters' = Append(lockWaiters, c)
            /\ UNCHANGED <<now, _status_cache, _cache_timestamp, lockHolder, t0,
                           instances, task, results, returned, probes, failed,
                           refreshes, cacheGen, myRefresh, retGen, hitRet,
                           lastOutcome>>

AcquireEnabled(c) ==
    /\ pc[c] = "waiting"
    /\ lockHolder = NoCaller
    /\ lockWaiters # <<>>
    /\ Head(lockWaiters) = c

\* The first waiter is woken by the release and enters (factory.py:160).
Acquire(c) ==
    /\ AcquireEnabled(c)
    /\ lockWaiters' = Tail(lockWaiters)
    /\ Enter(c)
    /\ UNCHANGED <<calls, arrivedDuring>>

TaskDone(c, i, outcome) ==
    /\ task' = [task EXCEPT ![c][i] = "done"]
    /\ results' = [results EXCEPT ![c][i] = safe_status(outcome)]
    /\ lastOutcome' = [lastOutcome EXCEPT ![provider_names[i]] = outcome]
    /\ UNCHANGED <<now, _status_cache, _cache_timestamp, lockHolder, lockWaiters,
                   pc, t0, instances, returned, calls, probes, failed, refreshes,
                   cacheGen, myRefresh, retGen, hitRet, arrivedDuring>>

\* A wait_for that never gives up.
DueNever(c) == FALSE

\* factory.py:54-57: the wait_for deadline of the tasks started at t0.
Due(c) == now - t0[c] >= StatusTimeout

\* factory.py:54-58: get_status returns before the deadline.
ProbeReturns(c, i) ==
    /\ pc[c] = "probing" /\ task[c][i] = "running" /\ ~Due(c)
    /\ \E s \in AdapterStatuses : TaskDone(c, i, [kind |-> "returned", value |-> s])

\* factory.py:69-76: get_status raises before the deadline.
ProbeRaises(c, i) ==
    /\ pc[c] = "probing" /\ task[c][i] = "running" /\ ~Due(c)
    /\ \E e \in RaisedExceptions :
            TaskDone(c, i, [kind |-> "raised", type |-> e.type, text |-> e.text])

\* factory.py:60-67: get_status raises asyncio.TimeoutError itself before the
\* deadline.  The status that results is the one of an expired deadline.
ProbeRaisesTimeoutError(c, i) ==
    /\ pc[c] = "probing" /\ task[c][i] = "running" /\ ~Due(c)
    /\ TaskDone(c, i, [kind |-> "raised", type |-> RaisedTimeoutError.type,
                       text |-> RaisedTimeoutError.text])

TimeoutEnabled(c, i) == pc[c] = "probing" /\ task[c][i] = "running" /\ Due(c)

\* factory.py:60-67: wait_for gives up at the deadline.
ProbeTimeout(c, i) ==
    /\ TimeoutEnabled(c, i)
    /\ TaskDone(c, i, [kind |-> "timeout"])

\* The wait ended by the first task to complete.
FinishEnabledOnFirst(c) == pc[c] = "probing" /\ \E i \in ProvIdx : task[c][i] = "done"

\* factory.py:204: gather returns when every task has completed.
FinishEnabled(c) == pc[c] = "probing" /\ \A i \in ProvIdx : task[c][i] = "done"

\* factory.py:204-227: gather returns, the snapshot is built and stored, the
\* lock is released on leaving `async with`.  Were a task to raise, gather
\* would re-raise it and the call would end without storing anything.
Finish(c) ==
    /\ FinishEnabled(c)
    /\ IF \E i \in ProvIdx : Raises(results[c][i])
       THEN /\ pc' = [pc EXCEPT ![c] = "raised"]
            /\ UNCHANGED <<_status_cache, _cache_timestamp, returned, cacheGen,
                           retGen>>
       ELSE /\ LET statuses == BuildStatuses(results[c], now - t0[c]) IN
               /\ _status_cache' = statuses
               /\ _cache_timestamp' = now
               /\ returned' = statuses
            /\ cacheGen' = myRefresh[c]
            /\ retGen' = [retGen EXCEPT ![c] = myRefresh[c]]
            /\ pc' = [pc EXCEPT ![c] = "done"]
    /\ lockHolder' = IF lockHolder = c THEN NoCaller ELSE lockHolder
    /\ myRefresh' = [myRefresh EXCEPT ![c] = 0]
    /\ t0' = [t0 EXCEPT ![c] = 0]
    /\ instances' = [instances EXCEPT ![c] = [i \in ProvIdx |-> FALSE]]
    /\ task' = [task EXCEPT ![c] = [i \in ProvIdx |-> "none"]]
    /\ results' = [results EXCEPT ![c] = [i \in ProvIdx |-> NoStatus]]
    /\ UNCHANGED <<now, lockWaiters, calls, probes, failed, refreshes, hitRet,
                   arrivedDuring, lastOutcome>>

\* A step of the event loop is due: it runs before the clock moves on.
LoopStepPending ==
    \E c \in Callers :
        \/ AcquireEnabled(c)
        \/ FinishEnabled(c)
        \/ \E i \in ProvIdx : TimeoutEnabled(c, i)

Tick ==
    /\ ~LoopStepPending
    /\ now + ClockStep <= MaxTime
    /\ now' = now + ClockStep
    /\ UNCHANGED <<_status_cache, _cache_timestamp, lockHolder, lockWaiters, pc,
                   t0, instances, task, results, returned, calls, probes, failed,
                   refreshes, cacheGen, myRefresh, retGen, hitRet, arrivedDuring,
                   lastOutcome>>

NextStatus ==
    \/ \E c \in Callers : Call(c) /\ UNCHANGED nonStatusVars
    \/ \E c \in Callers : Acquire(c) /\ UNCHANGED nonStatusVars
    \/ \E c \in Callers, i \in ProvIdx : ProbeReturns(c, i) /\ UNCHANGED nonStatusVars
    \/ \E c \in Callers, i \in ProvIdx : ProbeRaises(c, i) /\ UNCHANGED nonStatusVars
    \/ \E c \in Callers, i \in ProvIdx : ProbeTimeout(c, i) /\ UNCHANGED nonStatusVars
    \/ \E c \in Callers : Finish(c) /\ UNCHANGED nonStatusVars
    \/ Tick /\ UNCHANGED nonStatusVars

\* ================================================================ helpers
\* Money is counted in units of 10^-5 currency units, so that rounding to 4
\* and to 2 decimals is visible.
Unit == 10 * 10000

\* The integer nearest to a / b (b > 0), ties to even, as round() does.
RoundDiv(a, b) ==
    LET lo == a \div b
        r == a - lo * b
    IN  IF 2 * r < b THEN lo
        ELSE IF 2 * r > b THEN lo + 1
        ELSE IF lo % 2 = 0 THEN lo ELSE lo + 1

\* round(x, 4) on money
Round4(x) == RoundDiv(x, 10) * 10

\* round(x, 2) on money
Round2(x) == RoundDiv(x, 1000) * 1000

\* dict.get(k, default)
Get(d, k, default) == IF k \in DOMAIN d THEN d[k] ELSE default

\* truthiness of a dict
Truthy(d) == DOMAIN d # {}

\* The last element in place of the sum: each addend overwrites the total.
LastOverwrites(s) == IF Len(s) = 0 THEN 0 ELSE s[Len(s)]

SumSeq(s) ==
    LET f[i \in 0..Len(s)] == IF i = 0 THEN 0 ELSE f[i - 1] + s[i]
    IN  f[Len(s)]

\* The lists joined last to first.
ConcatReversed(ss) ==
    LET f[i \in 0..Len(ss)] == IF i = 0 THEN <<>> ELSE ss[i] \o f[i - 1]
    IN  f[Len(ss)]

\* list.extend over a list of lists; also ",".join over comma-free tokens
Concat(ss) ==
    LET f[i \in 0..Len(ss)] == IF i = 0 THEN <<>> ELSE f[i - 1] \o ss[i]
    IN  f[Len(ss)]

\* The keys of an insertion-ordered dict filled from s: first appearances.
FirstAppearances(s) ==
    LET first == {i \in 1..Len(s) : \A j \in 1..(i - 1) : s[j] # s[i]}
    IN  [p \in 1..Cardinality(first) |->
            s[CHOOSE i \in first : Cardinality({j \in first : j <= i}) = p]]

\* A descending sort that puts a later item before the earlier items of
\* the same key.
SortedDescTiesReversed(items, keys) ==
    LET n == Len(items)
        pos(i) == 1 + Cardinality({j \in 1..n :
                        keys[j] > keys[i] \/ (keys[j] = keys[i] /\ j > i)})
    IN  [p \in 1..n |-> items[CHOOSE i \in 1..n : pos(i) = p]]

\* sorted(items, key=..., reverse=True): descending, equal keys keeping
\* their order; keys[i] is the key of items[i].
SortedDesc(items, keys) ==
    LET n == Len(items)
        pos(i) == 1 + Cardinality({j \in 1..n :
                        keys[j] > keys[i] \/ (keys[j] = keys[i] /\ j < i)})
    IN  [p \in 1..n |-> items[CHOOSE i \in 1..n : pos(i) = p]]

\* sorted(items, key=...): ascending, equal keys keeping their order.
SortedAsc(items, keys) ==
    LET n == Len(items)
        pos(i) == 1 + Cardinality({j \in 1..n :
                        keys[j] < keys[i] \/ (keys[j] = keys[i] /\ j < i)})
    IN  [p \in 1..n |-> items[CHOOSE i \in 1..n : pos(i) = p]]

\* The list left at its full length.
TakeAll(s, n) == s

\* s[:n]
Take(s, n) == SubSeq(s, 1, IF Len(s) < n THEN Len(s) ELSE n)

\* A string as the list of its comma-free pieces, so that ",".join is
\* concatenation.
Str(name) == <<name>>

DecimalDigits == <<"0", "1", "2", "3", "4", "5", "6", "7", "8", "9">>

\* str(n) of an int n >= 0: a text, the decimal digits of n from the most
\* significant one, and not the number.
str(n) ==
    LET digits[k \in 0..n] ==
            IF k < 10 THEN <<DecimalDigits[k + 1]>>
            ELSE digits[k \div 10] \o <<DecimalDigits[(k % 10) + 1]>>
    IN  [str |-> digits[n]]

\* ============================================================ retry wrapper
\* utils/helpers.py:23-77.  Durations are counted in hundredths of a second.
MaxAttempts == 3

\* helpers.py:24-27: the decorator's defaults, and a function that succeeds
\* at once.
RetryDefaults ==
    [max_attempts |-> 3, delay_seconds |-> 100, backoff_factor |-> 2,
     exceptions |-> <<"Exception">>, is_async |-> FALSE,
     fails |-> 0, raises |-> "ValueError"]

\* The decorator's arguments and the wrapped function: `fails` is the number
\* of its first calls that raise, `raises` the type of what they raise;
\* is_async is asyncio.iscoroutinefunction(func) (helpers.py:73).
RetryArgs ==
    [max_attempts : 0..MaxAttempts, delay_seconds : {1, 100},
     backoff_factor : {2, 3}, exceptions : {<<"Exception">>, <<"ValueError">>},
     is_async : BOOLEAN, fails : 0..MaxAttempts, raises : {"ValueError", "RuntimeError"}]

None == [kind |-> "None"]

InitRetry ==
    /\ retryArgs = RetryDefaults
    /\ retryPc = "idle"
    /\ attempt = 0
    /\ last_exception = None
    /\ func_calls = <<>>
    /\ sleeps = <<>>
    /\ retryResult = NoOutcome

\* What the j-th call of the wrapped function does.
FuncOutcome(args, j) ==
    IF j <= args.fails
    THEN [kind |-> "exception", type |-> args.raises, call |-> j]
    ELSE [kind |-> "value", value |-> "ok", call |-> j]

\* An except clause that catches everything.
MatchesAnything(e, exceptions) == TRUE

\* An except clause that catches nothing.
MatchesNothing(e, exceptions) == FALSE

\* helpers.py:45, 61: `except exceptions as e`, every exception type here
\* being a subclass of Exception.
Matches(e, exceptions) ==
    \E k \in 1..Len(exceptions) : exceptions[k] \in {"Exception", e.type}

RECURSIVE Pow(_, _)
\* b ** e (helpers.py:48, 64)
Pow(b, e) == IF e = 0 THEN 1 ELSE b * Pow(b, e - 1)

\* The backoff applied from the first wait on.
WaitBackoffFromFirst(args, n) == args.delay_seconds * Pow(args.backoff_factor, n)

\* helpers.py:48, 64: the wait after failed attempt n
Wait(args, n) == args.delay_seconds * Pow(args.backoff_factor, n - 1)

\* helpers.py:54, 70: `raise last_exception`; raising None is a TypeError.
RaiseLast(e) ==
    IF e = None THEN [kind |-> "exception", type |-> "TypeError", call |-> 0] ELSE e

\* The wrapper is called (helpers.py:41-43, 57-59): last_exception = None and
\* the loop over range(1, max_attempts + 1) begins.
CallWrapper ==
    /\ retryPc = "idle"
    /\ last_exception' = None
    /\ IF retryArgs.max_attempts >= 1
       THEN /\ attempt' = 1
            /\ retryPc' = "calling"
            /\ UNCHANGED retryResult
       ELSE /\ retryPc' = "raised"
            /\ retryResult' = RaiseLast(None)
            /\ UNCHANGED attempt
    /\ UNCHANGED <<retryArgs, func_calls, sleeps>>

\* helpers.py:43-53, 59-69: one pass of the loop body, from the call of the
\* function to its return, to the sleep, or to the raise after the loop.
CallFunc ==
    /\ retryPc = "calling"
    /\ LET o == FuncOutcome(retryArgs, Len(func_calls) + 1) IN
       /\ func_calls' = Append(func_calls, o)
       /\ IF o.kind = "value"
          THEN /\ retryPc' = "returned"
               /\ retryResult' = o
               /\ UNCHANGED <<last_exception, sleeps>>
          ELSE IF ~Matches(o, retryArgs.exceptions)
          THEN /\ retryPc' = "raised"
               /\ retryResult' = o
               /\ UNCHANGED <<last_exception, sleeps>>
          ELSE /\ last_exception' = o
               /\ IF attempt < retryArgs.max_attempts
                  THEN /\ sleeps' =
                            Append(sleeps,
                                   [seconds |-> Wait(retryArgs, attempt),
                                    by |-> IF retryArgs.is_async THEN "asyncio.sleep"
                                           ELSE "time.sleep"])
                       /\ retryPc' = "sleeping"
                       /\ UNCHANGED retryResult
                  ELSE /\ retryPc' = "raised"
                       /\ retryResult' = RaiseLast(o)
                       /\ UNCHANGED sleeps
    /\ UNCHANGED <<retryArgs, attempt>>

\* The sleep ends and the loop goes on (helpers.py:42, 58).
SleepDone ==
    /\ retryPc = "sleeping"
    /\ IF attempt < retryArgs.max_attempts
       THEN /\ attempt' = attempt + 1
            /\ retryPc' = "calling"
            /\ UNCHANGED retryResult
       ELSE /\ retryPc' = "raised"
            /\ retryResult' = RaiseLast(last_exception)
            /\ UNCHANGED attempt
    /\ UNCHANGED <<retryArgs, last_exception, func_calls, sleeps>>

\* ========================================================= gather_with_limit
MaxCoros == 3

MaxLimit == 2

\* What the call is given: the limit, and for each coroutine whether it
\* returns or raises when it is run.
GatherArgs ==
    [limit : -1..MaxLimit,
     coros : UNION {[1..n -> {"return", "raise"}] : n \in 0..MaxCoros}]

InitGather ==
    /\ gatherArgs = [limit |-> 1, coros |-> <<>>]
    /\ gatherPc = "idle"
    /\ limited = <<>>
    /\ semValue = 0
    /\ semWaiters = <<>>
    /\ taskOutcomes = <<>>
    /\ gatherResult = NoOutcome


\* A semaphore that lets every task in.
AcquiresAtOnceAlways(value, waiters) == TRUE

\* asyncio.Semaphore.acquire: the caller goes on without waiting when a
\* permit is left and nobody is queued before it.
AcquiresAtOnce(value, waiters) == value > 0 /\ waiters = <<>>

\* helpers.py:164-174: the call.  Semaphore(limit) raises ValueError for a
\* negative limit; otherwise gather makes one limited() task per coroutine,
\* none of which has run yet.
CallGather ==
    /\ gatherPc = "idle"
    /\ IF gatherArgs.limit < 0
       THEN /\ gatherPc' = "raised"
            /\ gatherResult' = [kind |-> "raise", type |-> "ValueError"]
            /\ UNCHANGED <<limited, semValue, taskOutcomes>>
       ELSE /\ gatherPc' = "gathering"
            /\ semValue' = gatherArgs.limit
            /\ limited' = [i \in 1..Len(gatherArgs.coros) |-> "created"]
            /\ taskOutcomes' = [i \in 1..Len(gatherArgs.coros) |-> NoOutcome]
            /\ UNCHANGED gatherResult
    /\ UNCHANGED <<gatherArgs, semWaiters>>

\* helpers.py:176-178: a limited() task runs for the first time, the tasks
\* in the order gather made them: it enters `async with semaphore`, taking a
\* permit and starting its coroutine, or queueing for one.
StartLimited(i) ==
    /\ gatherPc = "gathering"
    /\ i <= Len(limited)
    /\ limited[i] = "created"
    /\ \A j \in 1..(i - 1) : limited[j] # "created"
    /\ IF AcquiresAtOnce(semValue, semWaiters)
       THEN /\ semValue' = semValue - 1
            /\ limited' = [limited EXCEPT ![i] = "running"]
            /\ UNCHANGED semWaiters
       ELSE /\ semWaiters' = Append(semWaiters, i)
            /\ limited' = [limited EXCEPT ![i] = "waiting"]
            /\ UNCHANGED semValue
    /\ UNCHANGED <<gatherArgs, gatherPc, taskOutcomes, gatherResult>>

\* helpers.py:177-178: the coroutine of task i ends, by returning or by
\* raising; leaving `async with` gives the permit back either way.
EndLimited(i) ==
    /\ gatherPc = "gathering"
    /\ i <= Len(limited)
    /\ limited[i] = "running"
    /\ limited' = [limited EXCEPT ![i] = "done"]
    /\ taskOutcomes' = [taskOutcomes EXCEPT ![i] =
                      IF gatherArgs.coros[i] = "raise"
                      THEN [kind |-> "raise", of |-> i]
                      ELSE [kind |-> "value", of |-> i]]
    /\ semValue' = semValue + 1
    /\ UNCHANGED <<gatherArgs, gatherPc, semWaiters, gatherResult>>

\* asyncio.Semaphore: the first waiter is woken when a permit is free, takes
\* it and starts its coroutine.
WakeLimited ==
    /\ gatherPc = "gathering"
    /\ semWaiters # <<>>
    /\ semValue > 0
    /\ semValue' = semValue - 1
    /\ semWaiters' = Tail(semWaiters)
    /\ limited' = [limited EXCEPT ![Head(semWaiters)] = "running"]
    /\ UNCHANGED <<gatherArgs, gatherPc, taskOutcomes, gatherResult>>

\* helpers.py:180: gather(..., return_exceptions=True) returns when every
\* task has ended, an exception being the task's entry in the list.
ReturnGather ==
    /\ gatherPc = "gathering"
    /\ \A i \in 1..Len(limited) : limited[i] = "done"
    /\ gatherPc' = "returned"
    /\ gatherResult' =
          [kind |-> "value",
           value |-> [i \in 1..Len(taskOutcomes) |->
                        IF taskOutcomes[i].kind = "raise"
                        THEN [exception |-> taskOutcomes[i].of]
                        ELSE [result |-> taskOutcomes[i].of]]]
    /\ UNCHANGED <<gatherArgs, limited, semValue, semWaiters, taskOutcomes>>

\* ============================================================ /api/aggregate
MaxChars == 4

\* The providers query parameter, character by character: a letter of a
\* name, the separator, white space.
ProviderStrings == UNION {[1..n -> {"a", ",", " "}] : n \in 0..MaxChars}

InitApi ==
    /\ apiArgs = [providers |-> <<>>, orchestrator |-> "return"]
    /\ apiPc = "idle"
    /\ provider_list = <<>>
    /\ orchestratorCalls = 0
    /\ apiResponse = NoOutcome

\* str.split(","): the pieces between the separators, "" giving [""].
split(s) ==
    LET pieces[i \in 0..Len(s)] ==
            IF i = 0 THEN << <<>> >>
            ELSE LET before == pieces[i - 1]
                 IN  IF s[i] = "," THEN Append(before, <<>>)
                     ELSE [before EXCEPT ![Len(before)] = Append(@, s[i])]
    IN  pieces[Len(s)]

\* str.strip(): without the white space at both ends.
strip(p) ==
    LET inked == {i \in 1..Len(p) : p[i] # " "}
    IN  IF inked = {} THEN <<>>
        ELSE SubSeq(p, CHOOSE i \in inked : \A j \in inked : i <= j,
                       CHOOSE i \in inked : \A j \in inked : i >= j)

\* server.py:102: [p.strip() for p in providers.split(",") if p.strip()]
ParseProviders(providers) ==
    LET stripped == [k \in 1..Len(split(providers)) |-> strip(split(providers)[k])]
        NonEmpty(p) == p # <<>>
    IN  SelectSeq(stripped, NonEmpty)

\* Every exception leaving the try block answered with 500.
HandleAll(exc) == [status |-> 500, detail |-> exc.detail]

\* server.py:111-115: an HTTPException raised in the try block is re-raised
\* as it is; any other exception becomes a 500 with its text.
Handle(exc) ==
    IF exc.type = "HTTPException" THEN [status |-> exc.status, detail |-> exc.detail]
    ELSE [status |-> 500, detail |-> exc.detail]

\* server.py:101-110: the request arrives; the list is parsed and either the
\* 400 is raised inside the try block or the orchestrator is awaited.
CallAggregate ==
    /\ apiPc = "idle"
    /\ LET parsed == ParseProviders(apiArgs.providers) IN
          /\ provider_list' = parsed
          /\ IF parsed = <<>>
             THEN /\ apiResponse' =
                        Handle([type |-> "HTTPException", status |-> 400,
                                detail |-> "No valid providers specified"])
                  /\ apiPc' = "responded"
                  /\ UNCHANGED orchestratorCalls
             ELSE /\ orchestratorCalls' = orchestratorCalls + 1
                  /\ apiPc' = "awaiting"
                  /\ UNCHANGED apiResponse
    /\ UNCHANGED apiArgs

\* server.py:105-115: aggregate_analysis returns and the result is adapted,
\* or something in the try block raises.
OrchestratorEnds ==
    /\ apiPc = "awaiting"
    /\ apiResponse' =
          IF apiArgs.orchestrator = "return"
          THEN [status |-> 200, detail |-> "result"]
          ELSE Handle([type |-> "Exception", detail |-> "boom"])
    /\ apiPc' = "responded"
    /\ UNCHANGED <<apiArgs, provider_list, orchestratorCalls>>

\* ========================================================= configure_logging
MaxLogCalls == 3

\* logging.py:90-91 with the environment variables unset
_LOG_LEVEL == "INFO"

_LOG_FORMAT == "json"

\* Arguments of configure_logging: level names of the logging module, a name
\* it does not have, and a level name in lower case (in the logging module
\* the name of a function); the two formats; no stream or one given.
ConfigureArgs ==
    [level : {"DEBUG", "INFO", "ERROR", "VERBOSE", "debug"},
     fmt : {"json", "text"},
     stream : {"None", "stdout"}]

InitLog ==
    /\ _configured = FALSE
    /\ root_level = "NOTSET"
    /\ root_handlers = <<>>
    /\ logCalls = <<>>

\* logging.py:110: getattr(logging, level, logging.INFO)
LevelAttribute(level) ==
    CASE level \in {"DEBUG", "INFO", "ERROR"} -> [kind |-> "int", name |-> level]
      [] level = "debug" -> [kind |-> "function", name |-> level]
      [] OTHER -> [kind |-> "int", name |-> "INFO"]

\* logging.py:112-122: the handler made for the format and the stream
HandlerFor(fmt, stream) ==
    [formatter |-> IF fmt = "json" THEN "StructuredJSONFormatter" ELSE "Formatter",
     stream |-> IF stream = "None" THEN "stderr" ELSE stream]

\* logging.py:95-126: one call of configure_logging.  The flag is set before
\* anything else is done; Logger.setLevel raises TypeError for a level that
\* is neither an int nor a string, and the call ends there.
configure_logging(args, via) ==
    /\ Len(logCalls) < MaxLogCalls
    /\ IF _configured
       THEN /\ logCalls' = Append(logCalls, [args |-> args, via |-> via,
                                             outcome |-> "return"])
            /\ UNCHANGED <<_configured, root_level, root_handlers>>
       ELSE /\ _configured' = TRUE
            /\ IF LevelAttribute(args.level).kind = "int"
               THEN /\ root_level' = LevelAttribute(args.level).name
                    /\ root_handlers' =
                          Append(root_handlers, HandlerFor(args.fmt, args.stream))
                    /\ logCalls' = Append(logCalls, [args |-> args, via |-> via,
                                                     outcome |-> "return"])
               ELSE /\ logCalls' = Append(logCalls, [args |-> args, via |-> via,
                                                     outcome |-> "TypeError"])
                    /\ UNCHANGED <<root_level, root_handlers>>

\* logging.py:133-146: get_logger calls configure_logging() with the defaults.
get_logger ==
    configure_logging([level |-> _LOG_LEVEL, fmt |-> _LOG_FORMAT, stream |-> "None"],
                      "get_logger")

ConfigureLogging == \E args \in ConfigureArgs : configure_logging(args, "caller")

\* ================================================================ TokenCache
NumThreads == 2
MaxTokenCalls == 3
TokenClockStep == 1500
MaxWallClock == 3000

\* entry.py:57: ttl=3000
DefaultTtl == 3000

Threads == 1..NumThreads

NoThread == 0

\* The tokens stored: text, the empty text included.
TokenValues == { [str |-> ""], [str |-> "t1"], [str |-> "t2"] }

\* The ttl arguments: the default and one that is not positive.
TtlValues == {0, DefaultTtl}

\* The truth value of a token: None and the empty text are false.
bool(v) == v # None /\ v # [str |-> ""]

IdleThread ==
    [pc |-> "idle", op |-> "none", token |-> None, ttl |-> 0,
     now |-> 0, expiry |-> 0, seen |-> 0, cached |-> None, got |-> FALSE,
     slot |-> 0, result |-> None, calls |-> 0]

\* entry.py:46-49 and 62: the cache as constructed, no thread in a call.
InitToken ==
    /\ _token = None
    /\ _expiry = 0
    /\ _lock = NoThread
    /\ wallClock = 0
    /\ threads = [t \in Threads |-> IdleThread]
    /\ stored = <<>>

\* A lock that never blocks: every thread enters at once.
LockFreeAlways(lock) == TRUE

\* entry.py:52 and 58: with self._lock blocks until no thread holds the lock.
LockFree(lock) == lock = NoThread

CallsMade == SumSeq([t \in Threads |-> threads[t].calls])

CanCall(t) == threads[t].pc = "idle" /\ CallsMade < MaxTokenCalls

InCall(t, op, at) ==
    [IdleThread EXCEPT !.pc = at, !.op = op, !.calls = threads[t].calls + 1]

\* A thread calls get_valid_token().
CallGet(t) ==
    /\ CanCall(t)
    /\ threads' = [threads EXCEPT ![t] = InCall(t, "get", "get_lock")]
    /\ UNCHANGED <<_token, _expiry, _lock, wallClock, stored>>

\* A thread calls set_token(token, ttl).
CallSet(t, token, ttl) ==
    /\ CanCall(t)
    /\ threads' = [threads EXCEPT ![t] =
                      [InCall(t, "set", "set_lock") EXCEPT !.token = token,
                                                           !.ttl = ttl]]
    /\ UNCHANGED <<_token, _expiry, _lock, wallClock, stored>>

\* entry.py:68-69: a thread calls _get_gcp_token(), which asks the cache.
CallGcp(t) ==
    /\ CanCall(t)
    /\ threads' = [threads EXCEPT ![t] = InCall(t, "gcp", "get_lock")]
    /\ UNCHANGED <<_token, _expiry, _lock, wallClock, stored>>

\* entry.py:52 and 58: the lock is taken.
AcquireLock(t) ==
    /\ threads[t].pc \in {"get_lock", "set_lock"}
    /\ LockFree(_lock)
    /\ _lock' = t
    /\ threads' = [threads EXCEPT ![t].pc =
                      IF threads[t].pc = "get_lock" THEN "get_check" ELSE "set_token"]
    /\ UNCHANGED <<_token, _expiry, wallClock, stored>>

\* entry.py:53-55: the token, the clock and the expiry are read; the token is
\* what is returned if it is true and the clock is before the expiry, None
\* if not.  seen is the number of tokens written so far.
CheckToken(t) ==
    /\ threads[t].pc = "get_check"
    /\ threads' = [threads EXCEPT ![t] =
                      [@ EXCEPT !.pc = "get_unlock",
                                !.now = wallClock,
                                !.expiry = _expiry,
                                !.seen = Len(stored),
                                !.cached = IF bool(_token) /\ wallClock < _expiry
                                           THEN _token ELSE None]]
    /\ UNCHANGED <<_token, _expiry, _lock, wallClock, stored>>

\* entry.py:52-55: the lock is released and get_valid_token returns; in
\* _get_gcp_token (entry.py:69-71) a true token is returned, and without one
\* the credentials are refreshed.
ReturnToken(t) ==
    /\ threads[t].pc = "get_unlock"
    /\ _lock' = NoThread
    /\ threads' = [threads EXCEPT ![t] =
                      [@ EXCEPT !.got = TRUE,
                                !.result = threads[t].cached,
                                !.pc = IF threads[t].op = "gcp"
                                          /\ ~bool(threads[t].cached)
                                       THEN "refresh" ELSE "idle"]]
    /\ UNCHANGED <<_token, _expiry, wallClock, stored>>

\* entry.py:73-89: the credentials are refreshed and give a token.
RefreshGives(t, token) ==
    /\ threads[t].pc = "refresh"
    /\ threads' = [threads EXCEPT ![t] =
                      [@ EXCEPT !.pc = "set_lock", !.token = token,
                                !.ttl = DefaultTtl]]
    /\ UNCHANGED <<_token, _expiry, _lock, wallClock, stored>>

\* entry.py:73-77 and 94-95: no credentials, or the refresh raises: the text
\* of the error is returned and nothing is stored.
RefreshFails(t) ==
    /\ threads[t].pc = "refresh"
    /\ threads' = [threads EXCEPT ![t] =
                      [@ EXCEPT !.pc = "idle", !.result = [str |-> "Error"]]]
    /\ UNCHANGED <<_token, _expiry, _lock, wallClock, stored>>

\* entry.py:59: self._token = token
WriteToken(t) ==
    /\ threads[t].pc = "set_token"
    /\ _token' = threads[t].token
    /\ stored' = Append(stored, [token |-> threads[t].token, by |-> t,
                                 written |-> FALSE, expiry |-> 0])
    /\ threads' = [threads EXCEPT ![t] = [@ EXCEPT !.pc = "set_expiry",
                                                   !.slot = Len(stored) + 1]]
    /\ UNCHANGED <<_expiry, _lock, wallClock>>

\* entry.py:60: self._expiry = time.time() + ttl
WriteExpiry(t) ==
    /\ threads[t].pc = "set_expiry"
    /\ _expiry' = wallClock + threads[t].ttl
    /\ stored' = [stored EXCEPT ![threads[t].slot] =
                     [@ EXCEPT !.written = TRUE,
                               !.expiry = wallClock + threads[t].ttl]]
    /\ threads' = [threads EXCEPT ![t].pc = "set_unlock"]
    /\ UNCHANGED <<_token, _lock, wallClock>>

\* entry.py:58-60: the lock is released and set_token returns; in
\* _get_gcp_token (entry.py:91-92) the new token is returned.
ReturnSet(t) ==
    /\ threads[t].pc = "set_unlock"
    /\ _lock' = NoThread
    /\ threads' = [threads EXCEPT ![t] =
                      [@ EXCEPT !.pc = "idle",
                                !.result = IF threads[t].op = "gcp"
                                           THEN threads[t].token ELSE None]]
    /\ UNCHANGED <<_token, _expiry, wallClock, stored>>

\* The clock moves on, whatever the threads are doing.
TokenTick ==
    /\ wallClock + TokenClockStep <= MaxWallClock
    /\ wallClock' = wallClock + TokenClockStep
    /\ UNCHANGED <<_token, _expiry, _lock, threads, stored>>

InitUtil == InitGather /\ InitApi /\ InitLog /\ InitToken

\* ======================================================== provider registry
\* provider_name.lower() (factory.py:124) on the names used here
Lower(name) == IF name = "AWS" THEN "aws" ELSE name

\* What get_provider hands to analyze with an unknown name given a default.
get_provider_default(provider_name, ctor_ok) ==
    LET name == Lower(provider_name) IN
    IF name \notin _providers
    THEN [kind |-> "adapter", provider |-> "gcp"]
    ELSE IF ~ctor_ok
         THEN [kind |-> "raise", type |-> "Exception", error |-> <<"constructor failed">>]
         ELSE [kind |-> "adapter", provider |-> name]

\* factory.py:116-139: the adapter for a name, or the exception raised: an
\* unknown name raises ValueError before anything is constructed; the
\* constructor call itself may raise.
get_provider(provider_name, ctor_ok) ==
    LET name == Lower(provider_name) IN
    IF name \notin _providers
    THEN [kind |-> "raise", type |-> "ValueError",
          error |-> <<"Unknown provider:", provider_name>>]
    ELSE IF ~ctor_ok
         THEN [kind |-> "raise", type |-> "Exception", error |-> <<"constructor failed">>]
         ELSE [kind |-> "adapter", provider |-> name]

\* ============================================================ adapter data
\* What the adapters return when they return: NormalizedCost entries
\* (service, timestamp, cost) and Resource objects.
AdapterCosts(p) ==
    CASE p = "gcp" ->
           << [service |-> "Compute", timestamp |-> [day |-> 1, hour |-> 3],
               cost |-> 100 * Unit],
              [service |-> "Storage", timestamp |-> [day |-> 1, hour |-> 21],
               cost |-> 50 * Unit],
              [service |-> "Compute", timestamp |-> [day |-> 2, hour |-> 0],
               cost |-> 6] >>
      [] p = "aws" ->
           << [service |-> "EC2", timestamp |-> [day |-> 2, hour |-> 5],
               cost |-> 200 * Unit] >>
      [] OTHER ->
           << [service |-> "SQL", timestamp |-> [day |-> 3, hour |-> 1],
               cost |-> 30 * Unit],
              [service |-> "VM", timestamp |-> [day |-> 1, hour |-> 1],
               cost |-> 30 * Unit] >>

AdapterResources(p) ==
    CASE p = "gcp" ->
           << [id |-> "vm-1", name |-> "web", type |-> "vm", provider |-> "gcp",
               state |-> "RUNNING", cost_30d |-> 150 * Unit],
              [id |-> "disk-1", name |-> "data", type |-> "disk", provider |-> "gcp",
               state |-> "", cost_30d |-> 10 * Unit],
              [id |-> "b-1", name |-> "logs", type |-> "", provider |-> "gcp",
               state |-> "stopped", cost_30d |-> 0] >>
      [] p = "aws" ->
           << [id |-> "i-1", name |-> "api", type |-> "vm", provider |-> "aws",
               state |-> "running", cost_30d |-> 20 * Unit] >>
      [] OTHER ->
           << [id |-> "az-1", name |-> "db", type |-> "sql", provider |-> "azure",
               state |-> "Online", cost_30d |-> 11 * Unit],
              [id |-> "az-2", name |-> "vm", type |-> "vm", provider |-> "azure",
               state |-> "deallocated", cost_30d |-> 300 * Unit] >>

\* What an awaited get_costs / get_infrastructure may do: raise, or return
\* the provider's data.
CostOutcomes(p) ==
    { [kind |-> "raise"], [kind |-> "value", value |-> AdapterCosts(p)] }

InfraOutcomes(p) ==
    { [kind |-> "raise"], [kind |-> "value", value |-> AdapterResources(p)] }

\* ============================================================ Orchestrator
\* _safe letting the exception through.
_safe_propagate(outcome, default) == outcome

\* orchestrator.py:178-184
_safe(outcome, default) ==
    IF outcome.kind = "raise" THEN [kind |-> "value", value |-> default] ELSE outcome

\* The timestamp kept to the hour.
DayAndHourOf(ts) == ts.day * 100 + ts.hour

\* orchestrator.py:63: the calendar day of a timestamp
DayOf(ts) == ts.day

\* The state compared as it is spelled.
UpperAsSpelled(st) == st

\* str.upper() on the states used here (orchestrator.py:86)
Upper(st) ==
    CASE st = "running" -> "RUNNING"
      [] st = "stopped" -> "STOPPED"
      [] st = "Online" -> "ONLINE"
      [] st = "deallocated" -> "DEALLOCATED"
      [] OTHER -> st

DefaultDays == 30

CostDriverCap == 10

HighCostCap == 20

\* A threshold one unit lower.
LoweredThreshold == 10 - 1

HighCostThreshold == 10

\* orchestrator.py:57-121: the AnalysisResult built from the fetched lists.
BuildAnalysis(provider_name, days, costs, resources) ==
    LET n == Len(costs)
        dayOf == [i \in 1..n |-> DayOf(costs[i].timestamp)]
        svcOf == [i \in 1..n |-> costs[i].service]
        daily_map(d) ==
            SumSeq([i \in 1..n |-> IF dayOf[i] = d THEN costs[i].cost ELSE 0])
        cost_by_service(v) ==
            SumSeq([i \in 1..n |-> IF svcOf[i] = v THEN costs[i].cost ELSE 0])
        total_cost == SumSeq([i \in 1..n |-> costs[i].cost])
        dayKeys == FirstAppearances(dayOf)
        sortedDays == SortedAsc(dayKeys, dayKeys)
        daily_trends ==
            [j \in 1..Len(sortedDays) |->
                [date |-> sortedDays[j], amount |-> Round4(daily_map(sortedDays[j]))]]
        services == FirstAppearances(svcOf)
        drivers ==
            [j \in 1..Len(services) |->
                [service |-> services[j], cost |-> Round4(cost_by_service(services[j]))]]
        cost_drivers ==
            Take(SortedDesc(drivers, [j \in 1..Len(drivers) |-> drivers[j].cost]),
                 CostDriverCap)
        m == Len(resources)
        rtype == [i \in 1..m |->
                    IF resources[i].type # "" THEN resources[i].type ELSE "unknown"]
        resource_types ==
            [t \in {rtype[i] : i \in 1..m} |->
                Cardinality({i \in 1..m : rtype[i] = t})]
        running_count ==
            Cardinality({i \in 1..m :
                /\ resources[i].state # ""
                /\ Upper(resources[i].state) \in {"RUNNING", "ACTIVE", "ONLINE"}})
        IsHigh(r) ==
            /\ "cost_30d" \in DOMAIN r
            /\ r.cost_30d # 0
            /\ r.cost_30d > HighCostThreshold * Unit
        highRes == SelectSeq(resources, IsHigh)
        high_cost ==
            [j \in 1..Len(highRes) |->
                [id |-> highRes[j].id, name |-> highRes[j].name,
                 type |-> highRes[j].type, cost_30d |-> highRes[j].cost_30d]]
    IN  [meta |-> [provider |-> Str(provider_name), period_days |-> str(days),
                   generated_at |-> "utcnow"],
         summary |-> [total_cost |-> Round4(total_cost), currency |-> "USD",
                      resource_count |-> m],
         executive_summary |-> [total_spend |-> Round4(total_cost), risk_score |-> 0,
                                anomaly_count |-> 0, active_recommendations |-> 0],
         trends |-> EmptyDict,
         daily_trends |-> daily_trends,
         anomalies |-> <<>>,
         forecast |-> EmptyDict,
         governance_issues |-> <<>>,
         optimizations |-> <<>>,
         resources |-> resources,
         cost_drivers |-> cost_drivers,
         resource_types |-> resource_types,
         running_count |-> running_count,
         high_cost_resources |->
            Take(SortedDesc(high_cost,
                            [j \in 1..Len(high_cost) |-> high_cost[j].cost_30d]),
                 HighCostCap),
         idle_resources |-> <<>>,
         waste_findings |-> <<>>]

\* ======================================================= AggregationEngine
MergedListCap == 20

\* The fields an AnalysisResult has when its constructor is not given them.
AnalysisResultDefaults ==
    [cost_drivers |-> <<>>, resource_types |-> EmptyDict, running_count |-> 0,
     high_cost_resources |-> <<>>, idle_resources |-> <<>>, waste_findings |-> <<>>]

\* The empty result under the name merge gives to a result without one.
_empty_result_unknown ==
    [meta |-> [provider |-> Str("unknown"), type |-> "empty"],
     summary |-> [total_cost |-> 0, resource_count |-> 0],
     executive_summary |-> [risk_score |-> 0],
     trends |-> EmptyDict,
     daily_trends |-> <<>>,
     anomalies |-> <<>>,
     forecast |-> EmptyDict,
     governance_issues |-> <<>>,
     optimizations |-> <<>>,
     resources |-> <<>>,
     cost_drivers |-> <<>>,
     resource_types |-> EmptyDict,
     running_count |-> 0,
     high_cost_resources |-> <<>>,
     idle_resources |-> <<>>,
     waste_findings |-> <<>>]

\* aggregation.py:172-185
_empty_result ==
    [meta |-> [provider |-> Str("none"), type |-> "empty"],
     summary |-> [total_cost |-> 0, resource_count |-> 0],
     executive_summary |-> [risk_score |-> 0],
     trends |-> EmptyDict,
     daily_trends |-> <<>>,
     anomalies |-> <<>>,
     forecast |-> EmptyDict,
     governance_issues |-> <<>>,
     optimizations |-> <<>>,
     resources |-> <<>>,
     cost_drivers |-> AnalysisResultDefaults.cost_drivers,
     resource_types |-> AnalysisResultDefaults.resource_types,
     running_count |-> AnalysisResultDefaults.running_count,
     high_cost_resources |-> AnalysisResultDefaults.high_cost_resources,
     idle_resources |-> AnalysisResultDefaults.idle_resources,
     waste_findings |-> AnalysisResultDefaults.waste_findings]

\* The merged forecast keeping a confidence the inputs agree on.
_merge_forecasts_keep_confidence(forecasts) ==
    IF Len(forecasts) = 0 THEN EmptyDict
    ELSE LET given == SelectSeq(forecasts, Truthy)
             total_predicted ==
                SumSeq([i \in 1..Len(given) |->
                            Get(given[i], "predicted_additional_spend", 0)])
             agreed ==
                /\ Len(given) > 0
                /\ \A i \in 1..Len(given) :
                      Get(given[i], "confidence", "low") = Get(given[1], "confidence", "low")
         IN  [predicted_additional_spend |-> Round2(total_predicted),
              source_forecasts |-> Len(given),
              confidence |-> IF agreed THEN Get(given[1], "confidence", "low") ELSE "low"]

\* aggregation.py:158-170
_merge_forecasts(forecasts) ==
    IF Len(forecasts) = 0 THEN EmptyDict
    ELSE LET given == SelectSeq(forecasts, Truthy)
             total_predicted ==
                SumSeq([i \in 1..Len(given) |->
                            Get(given[i], "predicted_additional_spend", 0)])
         IN  [predicted_additional_spend |-> Round2(total_predicted),
              source_forecasts |-> Len(given),
              confidence |-> "low"]

\* The entry copied without the provider tag.
Untagged(d, provider) == d

\* {**d, "provider": provider} (aggregation.py:65, 76)
Tagged(d, provider) ==
    [k \in DOMAIN d \cup {"provider"} |-> IF k = "provider" THEN provider ELSE d[k]]

\* The one result handed on as an aggregate of one.
SingleResultAsAggregate(result_list) ==
    [result_list[1] EXCEPT
        !.trends = [aggregated |-> TRUE, provider_count |-> 1],
        !.daily_trends =
            [j \in 1..Len(@) |->
                Tagged(@[j], Get(result_list[1].meta, "provider", Str("unknown")))]]

\* aggregation.py:32-33: the one result itself
SingleResult(result_list) == result_list[1]

\* aggregation.py:23-156. Risk scores are counted in tenths.
merge(result_list) ==
    IF Len(result_list) = 0 THEN _empty_result
    ELSE IF Len(result_list) = 1 THEN SingleResult(result_list)
    ELSE
    LET n == Len(result_list)
        provider(i) == Get(result_list[i].meta, "provider", Str("unknown"))
        providers_seen == [i \in 1..n |-> provider(i)]
        all_resources == Concat([i \in 1..n |-> result_list[i].resources])
        total_cost == SumSeq([i \in 1..n |-> Get(result_list[i].summary, "total_cost", 0)])
        total_waste == SumSeq([i \in 1..n |-> Get(result_list[i].summary, "total_waste", 0)])
        all_anomalies ==
            Concat([i \in 1..n |->
                [j \in 1..Len(result_list[i].anomalies) |->
                    Tagged(result_list[i].anomalies[j], provider(i))]])
        all_daily_trends ==
            Concat([i \in 1..n |->
                [j \in 1..Len(result_list[i].daily_trends) |->
                    Tagged(result_list[i].daily_trends[j], provider(i))]])
        all_optimizations == Concat([i \in 1..n |-> result_list[i].optimizations])
        all_cost_drivers == Concat([i \in 1..n |-> result_list[i].cost_drivers])
        all_high_cost == Concat([i \in 1..n |-> result_list[i].high_cost_resources])
        rtypes == UNION {DOMAIN result_list[i].resource_types : i \in 1..n}
        resource_types ==
            [t \in rtypes |->
                SumSeq([i \in 1..n |-> Get(result_list[i].resource_types, t, 0)])]
        withSummary == SelectSeq([i \in 1..n |-> result_list[i].executive_summary], Truthy)
        risk_scores ==
            [i \in 1..Len(withSummary) |-> Get(withSummary[i], "risk_score", 0)]
        avg_risk ==
            IF Len(risk_scores) > 0
            THEN RoundDiv(SumSeq(risk_scores), Len(risk_scores))
            ELSE 0
    IN  [meta |-> [provider |-> Concat(providers_seen),
                   type |-> "multi-cloud-aggregate",
                   generated_at |-> "utcnow",
                   source_count |-> str(n)],
         summary |-> [total_cost |-> Round2(total_cost),
                      total_waste |-> Round2(total_waste),
                      resource_count |-> Len(all_resources),
                      providers |-> providers_seen,
                      savings_potential |-> RoundDiv(total_waste * 6, 10000) * 1000],
         executive_summary |->
                     [risk_score |-> avg_risk,
                      headline |-> <<"Multi-cloud analysis across">>
                                        \o Concat(providers_seen),
                      total_cost |-> Round2(total_cost),
                      provider_count |-> Len(providers_seen)],
         trends |-> [aggregated |-> TRUE, provider_count |-> n],
         daily_trends |->
            SortedAsc(all_daily_trends,
                      [j \in 1..Len(all_daily_trends) |->
                            Get(all_daily_trends[j], "date", 0)]),
         anomalies |-> all_anomalies,
         forecast |-> _merge_forecasts([i \in 1..n |-> result_list[i].forecast]),
         governance_issues |-> Concat([i \in 1..n |-> result_list[i].governance_issues]),
         optimizations |->
            SortedDesc(all_optimizations,
                       [j \in 1..Len(all_optimizations) |->
                            Get(all_optimizations[j], "potential_savings", 0)]),
         resources |-> all_resources,
         cost_drivers |->
            Take(SortedDesc(all_cost_drivers,
                            [j \in 1..Len(all_cost_drivers) |->
                                Get(all_cost_drivers[j], "cost", 0)]),
                 MergedListCap),
         resource_types |-> resource_types,
         running_count |-> SumSeq([i \in 1..n |-> result_list[i].running_count]),
         high_cost_resources |->
            Take(SortedDesc(all_high_cost,
                            [j \in 1..Len(all_high_cost) |->
                                Get(all_high_cost[j], "cost", 0)]),
                 MergedListCap),
         idle_resources |-> Concat([i \in 1..n |-> result_list[i].idle_resources]),
         waste_findings |-> Concat([i \in 1..n |-> result_list[i].waste_findings])]

\* ===================================================== Orchestrator actions
MaxNames == 2

\* Provider names a request may carry: registered ones, one in another case,
\* and one that is not registered.
NameUniverse == {"gcp", "AWS", "azure", "oracle"}

RequestLists == UNION {[1..n -> NameUniverse] : n \in 0..MaxNames}

NewAnalysis ==
    [pc |-> "created", adapter |-> "none", costs |-> NoOutcome, infra |-> NoOutcome,
     costsRaised |-> FALSE, infraRaised |-> FALSE, outcome |-> NoOutcome,
     runs |-> 0, ctorCalls |-> 0, costCalls |-> 0, infraCalls |-> 0]

InitOrch ==
    /\ req = [kind |-> "none", names |-> <<>>]
    /\ analyses = <<>>
    /\ completion = <<>>
    /\ response = NoOutcome

\* A caller awaits Orchestrator.analyze(name) (orchestrator.py:33).
RequestAnalyze(name) ==
    /\ req.kind = "none"
    /\ req' = [kind |-> "analyze", names |-> <<name>>]
    /\ analyses' = <<NewAnalysis>>
    /\ UNCHANGED <<completion, response>>

\* A caller awaits Orchestrator.aggregate_analysis(names): one analyze
\* coroutine per name, in list order (orchestrator.py:134-138).
RequestAggregate(names) ==
    /\ req.kind = "none"
    /\ req' = [kind |-> "aggregate", names |-> names]
    /\ analyses' = [i \in 1..Len(names) |-> NewAnalysis]
    /\ UNCHANGED <<completion, response>>

\* orchestrator.py:44-55: analyze runs to its first suspension.  The adapter
\* is resolved; when that raises, analyze ends with the exception; otherwise
\* both fetches are started.  The event loop starts the coroutines in the
\* order they were created.
StartAnalyze(i, ctor_ok) ==
    /\ i \in DOMAIN analyses
    /\ analyses[i].pc = "created"
    /\ \A j \in 1..(i - 1) : analyses[j].pc # "created"
    /\ LET provider == get_provider(req.names[i], ctor_ok) IN
       IF provider.kind = "raise"
       THEN /\ analyses' = [analyses EXCEPT ![i] =
                   [@ EXCEPT !.pc = "done", !.outcome = provider, !.runs = @ + 1,
                             !.ctorCalls =
                                IF provider.type = "ValueError" THEN @ ELSE @ + 1]]
            /\ completion' = Append(completion, i)
       ELSE /\ analyses' = [analyses EXCEPT ![i] =
                   [@ EXCEPT !.pc = "fetching", !.adapter = provider.provider,
                             !.runs = @ + 1, !.ctorCalls = @ + 1,
                             !.costCalls = @ + 1, !.infraCalls = @ + 1]]
            /\ UNCHANGED completion
    /\ UNCHANGED <<req, response>>

\* The fetch tasks are scheduled behind the analyze coroutines that gather
\* has already scheduled (orchestrator.py:138), so none of them runs before
\* every analyze has run to its first suspension.
AllStarted == \A j \in DOMAIN analyses : analyses[j].pc # "created"

\* orchestrator.py:52: the get_costs task ends.
CostsDone(i, outcome) ==
    /\ i \in DOMAIN analyses
    /\ analyses[i].pc = "fetching"
    /\ AllStarted
    /\ analyses[i].costs = NoOutcome
    /\ analyses' = [analyses EXCEPT ![i] =
            [@ EXCEPT !.costs = _safe(outcome, <<>>),
                      !.costsRaised = (outcome.kind = "raise")]]
    /\ UNCHANGED <<req, completion, response>>

\* orchestrator.py:53: the get_infrastructure task ends.
InfraDone(i, outcome) ==
    /\ i \in DOMAIN analyses
    /\ analyses[i].pc = "fetching"
    /\ AllStarted
    /\ analyses[i].infra = NoOutcome
    /\ analyses' = [analyses EXCEPT ![i] =
            [@ EXCEPT !.infra = _safe(outcome, <<>>),
                      !.infraRaised = (outcome.kind = "raise")]]
    /\ UNCHANGED <<req, completion, response>>

\* orchestrator.py:55-121: what analyze ends with once both tasks have ended;
\* gather re-raises what a task raised.
AnalyzeOutcome(name, costs, infra) ==
    IF costs.kind = "raise" \/ infra.kind = "raise"
    THEN [kind |-> "raise", type |-> "Exception", error |-> <<"fetch failed">>]
    ELSE [kind |-> "result",
          value |-> BuildAnalysis(name, DefaultDays, costs.value, infra.value)]

\* orchestrator.py:55-121
FinishAnalyze(i) ==
    /\ i \in DOMAIN analyses
    /\ analyses[i].pc = "fetching"
    /\ analyses[i].costs # NoOutcome
    /\ analyses[i].infra # NoOutcome
    /\ analyses' = [analyses EXCEPT ![i] =
            [@ EXCEPT !.pc = "done",
                      !.outcome = AnalyzeOutcome(req.names[i], analyses[i].costs,
                                                 analyses[i].infra)]]
    /\ completion' = Append(completion, i)
    /\ UNCHANGED <<req, response>>

\* gather handing the results over in the order the tasks ended.
GatherCompletionOrder(outcomes, order) ==
    [j \in 1..Len(order) |-> outcomes[order[j]]]

\* asyncio.gather (orchestrator.py:138): the results in the order of the
\* awaitables, whatever the order they ended in.
Gather(outcomes, order) == [i \in 1..Len(outcomes) |-> outcomes[i]]

IsResult(o) == o.kind = "result"

\* A failure kept in the list as a zero-value entry.
FilterValidZeroEntries(raw_results) ==
    [i \in 1..Len(raw_results) |->
        IF IsResult(raw_results[i]) THEN raw_results[i].value ELSE _empty_result]

\* orchestrator.py:141-146
FilterValid(raw_results) ==
    LET kept == SelectSeq(raw_results, IsResult)
    IN  [i \in 1..Len(kept) |-> kept[i].value]

\* orchestrator.py:138-148
AggregateOutcome(outcomes, order) ==
    [kind |-> "result", value |-> merge(FilterValid(Gather(outcomes, order)))]

\* gather giving up at the first exception.
GatherDoneOrRaised ==
    \/ \A i \in DOMAIN analyses : analyses[i].pc = "done"
    \/ \E i \in DOMAIN analyses :
            analyses[i].pc = "done" /\ analyses[i].outcome.kind = "raise"

\* orchestrator.py:138: gather(*tasks, return_exceptions=True) completes when
\* every task has ended, by result or by exception.
GatherDone == \A i \in DOMAIN analyses : analyses[i].pc = "done"

\* The awaited call ends: analyze hands back its result or raises
\* (orchestrator.py:91, 45); aggregate_analysis returns the merge of the valid
\* results (orchestrator.py:138-148).
Respond ==
    /\ req.kind # "none"
    /\ response = NoOutcome
    /\ GatherDone
    /\ response' =
          IF req.kind = "analyze" THEN analyses[1].outcome
          ELSE AggregateOutcome([i \in DOMAIN analyses |-> analyses[i].outcome],
                                completion)
    /\ UNCHANGED <<req, analyses, completion>>

NextOrch ==
    \/ \E name \in NameUniverse : RequestAnalyze(name) /\ UNCHANGED nonOrchVars
    \/ \E names \in RequestLists : RequestAggregate(names) /\ UNCHANGED nonOrchVars
    \/ \E i \in DOMAIN analyses, ok \in BOOLEAN : StartAnalyze(i, ok) /\ UNCHANGED nonOrchVars
    \/ \E i \in DOMAIN analyses : \E o \in CostOutcomes(analyses[i].adapter) :
            CostsDone(i, o) /\ UNCHANGED nonOrchVars
    \/ \E i \in DOMAIN analyses : \E o \in InfraOutcomes(analyses[i].adapter) :
            InfraDone(i, o) /\ UNCHANGED nonOrchVars
    \/ \E i \in DOMAIN analyses : FinishAnalyze(i) /\ UNCHANGED nonOrchVars
    \/ Respond /\ UNCHANGED nonOrchVars

InitFn ==
    /\ fnInput = <<>>
    /\ fnBefore = <<>>
    /\ fnOutput = NoOutcome

Init == InitStatus /\ InitOrch /\ InitFn /\ InitRetry /\ InitUtil

SpecOrch == Init /\ [][NextOrch]_vars

\* Every coroutine that can run does run, and every adapter call returns or
\* raises in the end: a step that can be taken is taken.
SpecOrchLive == SpecOrch /\ WF_vars(NextOrch)

SpecStatus == Init /\ [][NextStatus]_vars

\* The event loop runs every callback that is ready (a woken lock waiter, an
\* expired wait_for, a completed gather) and the clock moves on; a probe
\* itself may never complete.
SpecStatusLive ==
    /\ SpecStatus
    /\ WF_vars(Tick /\ UNCHANGED nonStatusVars)
    /\ WF_vars(\E c \in Callers : Acquire(c) /\ UNCHANGED nonStatusVars)
    /\ WF_vars(\E c \in Callers, i \in ProvIdx :
                    ProbeTimeout(c, i) /\ UNCHANGED nonStatusVars)
    /\ WF_vars(\E c \in Callers : Finish(c) /\ UNCHANGED nonStatusVars)

\* The status cache with adapters that may also raise asyncio.TimeoutError
\* from get_status.
NextStatusRaise ==
    \/ NextStatus
    \/ \E c \in Callers, i \in ProvIdx :
            ProbeRaisesTimeoutError(c, i) /\ UNCHANGED nonStatusVars

SpecStatusRaise == Init /\ [][NextStatusRaise]_vars

\* ============================================== merge applied to given lists
MaxInputs == 3

ServiceNames ==
    <<"s01", "s02", "s03", "s04", "s05", "s06", "s07", "s08", "s09", "s10", "s11">>

\* A result as Orchestrator.analyze builds it.
ResultGcp ==
    BuildAnalysis("gcp", DefaultDays, AdapterCosts("gcp"), AdapterResources("gcp"))

\* A result with every optional part filled in: waste, a risk score, a
\* forecast of high confidence, trend points out of date order, eleven cost
\* drivers, a high-cost entry with a "cost" key.
ResultAws ==
    [meta |-> [provider |-> Str("aws"), period_days |-> str(DefaultDays)],
     summary |-> [total_cost |-> 10 * Unit + 500, total_waste |-> 2 * Unit + 600,
                  resource_count |-> 1],
     executive_summary |-> [risk_score |-> 75, total_spend |-> 10 * Unit + 500],
     trends |-> EmptyDict,
     daily_trends |-> << [date |-> 3, amount |-> 7 * Unit],
                         [date |-> 1, amount |-> 3 * Unit + 500] >>,
     anomalies |-> << [id |-> "a1", severity |-> "high"] >>,
     forecast |-> [predicted_additional_spend |-> 100 * Unit + 400,
                   confidence |-> "high"],
     governance_issues |-> << [rule |-> "tagging"] >>,
     optimizations |-> << [id |-> "o1", potential_savings |-> 5 * Unit],
                          [id |-> "o2", potential_savings |-> 9 * Unit] >>,
     resources |-> AdapterResources("aws"),
     cost_drivers |->
        [j \in 1..Len(ServiceNames) |->
            [service |-> ServiceNames[j], cost |-> (Len(ServiceNames) + 1 - j) * Unit]],
     resource_types |-> [vm |-> 1],
     running_count |-> 1,
     high_cost_resources |-> << [id |-> "x", cost |-> 500 * Unit] >>,
     idle_resources |-> << [id |-> "idle-1"] >>,
     waste_findings |-> << [id |-> "w1"] >>]

\* A sparse result: no provider in meta, no totals in the summary, an
\* executive summary without a risk score, a forecast without a prediction,
\* a trend point without a date, a cost driver without a cost.
ResultSparse ==
    [meta |-> [type |-> "partial"],
     summary |-> [resource_count |-> 0],
     executive_summary |-> [headline |-> "n/a"],
     trends |-> EmptyDict,
     daily_trends |-> << [date |-> 1, amount |-> Unit], [amount |-> 2 * Unit] >>,
     anomalies |-> << [id |-> "a2", provider |-> Str("stale")] >>,
     forecast |-> [confidence |-> "high"],
     governance_issues |-> <<>>,
     optimizations |-> << [id |-> "o3"] >>,
     resources |-> <<>>,
     cost_drivers |->
        [j \in 1..Len(ServiceNames) |->
            IF j = 1 THEN [service |-> ServiceNames[j]]
            ELSE [service |-> ServiceNames[j], cost |-> j * Unit]],
     resource_types |-> EmptyDict,
     running_count |-> 0,
     high_cost_resources |-> <<>>,
     idle_resources |-> <<>>,
     waste_findings |-> <<>>]

\* A result with amounts below a cent and an empty executive summary.
ResultAzure ==
    [meta |-> [provider |-> Str("azure")],
     summary |-> [total_cost |-> 400, total_waste |-> 500, resource_count |-> 2],
     executive_summary |-> EmptyDict,
     trends |-> EmptyDict,
     daily_trends |-> << [date |-> 2, amount |-> 400] >>,
     anomalies |-> <<>>,
     forecast |-> [predicted_additional_spend |-> 400, confidence |-> "medium"],
     governance_issues |-> <<>>,
     optimizations |-> <<>>,
     resources |-> AdapterResources("azure"),
     cost_drivers |-> << [service |-> "VM", cost |-> 400] >>,
     resource_types |-> [sql |-> 1, vm |-> 1],
     running_count |-> 1,
     high_cost_resources |->
        << [id |-> "az-2", name |-> "vm", type |-> "vm", cost_30d |-> 300 * Unit],
           [id |-> "az-1", name |-> "db", type |-> "sql", cost_30d |-> 11 * Unit] >>,
     idle_resources |-> <<>>,
     waste_findings |-> <<>>]

ResultPool == {ResultGcp, ResultAws, ResultSparse, ResultAzure, _empty_result}

MergeInputs == UNION {[1..n -> ResultPool] : n \in 0..MaxInputs}

\* The tag written into the input's own dict.
TagInPlace(d, provider) ==
    [original |-> Tagged(d, provider), copy |-> Tagged(d, provider)]

\* aggregation.py:65, 76: {**d, "provider": provider} builds a new dict and
\* leaves d as it is.
CopyTagged(d, provider) == [original |-> d, copy |-> Tagged(d, provider)]

\* aggregation.py:29-88: what the call leaves in its argument.  The empty and
\* the one-element list are handed on untouched; the loop reads every field
\* and writes only to its own accumulators and to the tagged copies.
InputsAfterMerge(result_list) ==
    IF Len(result_list) < 2 THEN result_list
    ELSE [i \in 1..Len(result_list) |->
            LET r == result_list[i]
                provider == Get(r.meta, "provider", Str("unknown"))
            IN  [r EXCEPT
                   !.anomalies =
                        [j \in 1..Len(r.anomalies) |->
                            CopyTagged(r.anomalies[j], provider).original],
                   !.daily_trends =
                        [j \in 1..Len(r.daily_trends) |->
                            CopyTagged(r.daily_trends[j], provider).original]]]

InitMerge ==
    /\ InitStatus /\ InitOrch /\ InitRetry /\ InitUtil
    /\ fnInput \in MergeInputs
    /\ fnBefore = fnInput
    /\ fnOutput = NoOutcome

\* AggregationEngine.merge(results) is called and returns.
ApplyMerge ==
    /\ fnOutput = NoOutcome
    /\ fnOutput' = [kind |-> "result", value |-> merge(fnInput)]
    /\ fnInput' = InputsAfterMerge(fnInput)
    /\ UNCHANGED <<fnBefore, nonFnVars>>

NextMerge == ApplyMerge

SpecMerge == InitMerge /\ [][NextMerge]_vars

\* ================================================ merge applied in two steps
\* A result whose amounts are whole cents: eleven cost drivers, 12.03 of cost
\* and 4.01 of waste.
ResultCents ==
    [ResultAws EXCEPT
        !.summary = [total_cost |-> 12 * Unit + 3000, total_waste |-> 4 * Unit + 1000,
                     resource_count |-> 1]]

AssocPool == ResultPool \cup {ResultCents}

\* The three results a, b, c.
InitAssoc ==
    /\ InitStatus /\ InitOrch /\ InitRetry /\ InitUtil
    /\ fnInput \in [1..3 -> AssocPool]
    /\ fnBefore = fnInput
    /\ fnOutput = NoOutcome

\* merge([a, b, c]) is called, and so is merge([merge([a, b]), c]).
ApplyMergeNested ==
    /\ fnOutput = NoOutcome
    /\ fnOutput' = [kind |-> "result",
                    value |-> merge(fnInput),
                    nested |-> merge(<<merge(SubSeq(fnInput, 1, 2)), fnInput[3]>>)]
    /\ fnInput' = InputsAfterMerge(fnInput)
    /\ UNCHANGED <<fnBefore, nonFnVars>>

NextAssoc == ApplyMergeNested

SpecAssoc == InitAssoc /\ [][NextAssoc]_vars

\* ========================== analyze's result built from given fetched lists
MaxCosts == 3

\* NormalizedCost entries an adapter may return: two services, three
\* timestamps on two calendar days, an amount below the fourth decimal and
\* one above it.
CostEntryPool ==
    [service : {"Compute", "Storage"},
     timestamp : {[day |-> 1, hour |-> 3], [day |-> 1, hour |-> 21],
                  [day |-> 2, hour |-> 0]},
     cost : {4, 30 * Unit + 6}]

CostLists == UNION {[1..n -> CostEntryPool] : n \in 0..MaxCosts}

ResourceLists ==
    {<<>>, AdapterResources("gcp"), AdapterResources("aws"), AdapterResources("azure")}

InitBuild ==
    /\ InitStatus /\ InitOrch /\ InitRetry /\ InitUtil
    /\ fnInput \in [costs : CostLists, resources : ResourceLists]
    /\ fnBefore = fnInput
    /\ fnOutput = NoOutcome

\* orchestrator.py:55-121: analyze, with both fetches returned, builds and
\* returns its result.
ApplyBuild ==
    /\ fnOutput = NoOutcome
    /\ fnOutput' = [kind |-> "result",
                    value |-> BuildAnalysis("gcp", DefaultDays, fnInput.costs,
                                            fnInput.resources)]
    /\ UNCHANGED <<fnInput, fnBefore, nonFnVars>>

NextBuild == ApplyBuild

SpecBuild == InitBuild /\ [][NextBuild]_vars

\* ================== analyze's result built from lists longer than the caps
MaxExtra == 2

ResourceIds ==
    <<"r01", "r02", "r03", "r04", "r05", "r06", "r07", "r08", "r09", "r10", "r11",
      "r12", "r13", "r14", "r15", "r16", "r17", "r18", "r19", "r20", "r21", "r22">>

\* One cost entry for each of the first k services: costs rising with the
\* position, or all the same with a part below the fourth decimal.
CostsOfServices(k, shape) ==
    [j \in 1..k |->
        [service |-> ServiceNames[j], timestamp |-> [day |-> 1, hour |-> 3],
         cost |-> IF shape = "rising" THEN j * Unit ELSE Unit + 1]]

\* Further entries, for a service already seen or a new one.
ExtraCostPool ==
    [service : {"s01", "s11", "Extra"},
     timestamp : {[day |-> 2, hour |-> 0]},
     cost : {3, 6, 30 * Unit + 6}]

LongCostLists ==
    { CostsOfServices(k, shape) \o extra :
        k \in {9, 11}, shape \in {"rising", "level"},
        extra \in UNION {[1..n -> ExtraCostPool] : n \in 0..MaxExtra} }

\* A Resource whose optional 30-day cost is c.
ResourceCosting(j, c) ==
    [id |-> ResourceIds[j], name |-> "node", type |-> "vm", provider |-> "gcp",
     state |-> "RUNNING", cost_30d |-> c]

\* A Resource whose optional 30-day cost is None.
ResourceWithoutCost(j) ==
    [id |-> ResourceIds[j], name |-> "node", type |-> "vm", provider |-> "gcp",
     state |-> "RUNNING"]

\* k resources: costs rising with the position from exactly the threshold,
\* or above it in pairs of equal cost, or around it (exactly 10, just above
\* it, 0, None).
ResourcesOf(k, shape) ==
    [j \in 1..k |->
        CASE shape = "rising" ->
                ResourceCosting(j, (HighCostThreshold + j - 1) * Unit)
          [] shape = "pairs" ->
                ResourceCosting(j, (HighCostThreshold + ((j + 1) \div 2)) * Unit)
          [] OTHER ->
                CASE j % 4 = 1 -> ResourceCosting(j, HighCostThreshold * Unit)
                  [] j % 4 = 2 -> ResourceCosting(j, HighCostThreshold * Unit + 1)
                  [] j % 4 = 3 -> ResourceCosting(j, 0)
                  [] OTHER -> ResourceWithoutCost(j)]

LongResourceLists ==
    { ResourcesOf(k, shape) :
        k \in {4, 20, Len(ResourceIds)}, shape \in {"rising", "pairs", "threshold"} }

InitTop ==
    /\ InitStatus /\ InitOrch /\ InitRetry /\ InitUtil
    /\ fnInput \in [costs : LongCostLists, resources : LongResourceLists]
    /\ fnBefore = fnInput
    /\ fnOutput = NoOutcome

SpecTop == InitTop /\ [][NextBuild]_vars

\* ================================================================ chunk_list
MaxItems == 5

\* The list cut into whole chunks only.
chunk_list_whole_chunks(items, chunk_size) ==
    [j \in 1..(Len(items) \div chunk_size) |->
        SubSeq(items, (j - 1) * chunk_size + 1, j * chunk_size)]

\* helpers.py:161: [items[i:i + chunk_size] for i in range(0, len(items),
\* chunk_size)]; a slice ends at the end of the list.
chunk_list(items, chunk_size) ==
    LET n == Len(items)
        starts == (n + chunk_size - 1) \div chunk_size
    IN  [j \in 1..starts |->
            SubSeq(items, (j - 1) * chunk_size + 1,
                   IF j * chunk_size < n THEN j * chunk_size ELSE n)]

ChunkInputs ==
    [items : UNION {[1..n -> {1, 2}] : n \in 0..MaxItems}, chunk_size : 0..MaxItems]

InitChunk ==
    /\ InitStatus /\ InitOrch /\ InitRetry /\ InitUtil
    /\ fnInput \in ChunkInputs
    /\ fnBefore = fnInput
    /\ fnOutput = NoOutcome

\* chunk_list(items, chunk_size) is called; range() refuses a step of 0.
ApplyChunk ==
    /\ fnOutput = NoOutcome
    /\ fnOutput' =
          IF fnInput.chunk_size = 0
          THEN [kind |-> "raise", type |-> "ValueError"]
          ELSE [kind |-> "result",
                value |-> chunk_list(fnInput.items, fnInput.chunk_size)]
    /\ UNCHANGED <<fnInput, fnBefore, nonFnVars>>

NextChunk == ApplyChunk

SpecChunk == InitChunk /\ [][NextChunk]_vars

\* ====================================================== the retry wrapper run
InitRetryRun ==
    /\ InitStatus /\ InitOrch /\ InitFn /\ InitUtil
    /\ retryArgs \in RetryArgs
    /\ retryPc = "idle"
    /\ attempt = 0
    /\ last_exception = None
    /\ func_calls = <<>>
    /\ sleeps = <<>>
    /\ retryResult = NoOutcome

NextRetry ==
    \/ CallWrapper /\ UNCHANGED nonRetryVars
    \/ CallFunc /\ UNCHANGED nonRetryVars
    \/ SleepDone /\ UNCHANGED nonRetryVars

SpecRetry == InitRetryRun /\ [][NextRetry]_vars

\* The wrapper, once called, runs on: the function is called, the sleep ends.
SpecRetryLive == SpecRetry /\ WF_vars(NextRetry)

\* ================================================== the gather_with_limit run
InitGatherRun ==
    /\ InitStatus /\ InitOrch /\ InitFn /\ InitRetry /\ InitApi /\ InitLog /\ InitToken
    /\ gatherArgs \in GatherArgs
    /\ gatherPc = "idle"
    /\ limited = <<>>
    /\ semValue = 0
    /\ semWaiters = <<>>
    /\ taskOutcomes = <<>>
    /\ gatherResult = NoOutcome

NextGather ==
    \/ CallGather /\ UNCHANGED nonGatherVars
    \/ \E i \in 1..MaxCoros : StartLimited(i) /\ UNCHANGED nonGatherVars
    \/ \E i \in 1..MaxCoros : EndLimited(i) /\ UNCHANGED nonGatherVars
    \/ WakeLimited /\ UNCHANGED nonGatherVars
    \/ ReturnGather /\ UNCHANGED nonGatherVars

SpecGather == InitGatherRun /\ [][NextGather]_vars

\* The event loop runs every task that is ready, and every coroutine given
\* ends once it has been started.
SpecGatherLive == SpecGather /\ WF_vars(NextGather)

\* ========================================================= a request handled
InitApiRun ==
    /\ InitStatus /\ InitOrch /\ InitFn /\ InitRetry /\ InitGather /\ InitLog /\ InitToken
    /\ apiArgs \in [providers : ProviderStrings, orchestrator : {"return", "raise"}]
    /\ apiPc = "idle"
    /\ provider_list = <<>>
    /\ orchestratorCalls = 0
    /\ apiResponse = NoOutcome

NextApi ==
    \/ CallAggregate /\ UNCHANGED nonApiVars
    \/ OrchestratorEnds /\ UNCHANGED nonApiVars

SpecApi == InitApiRun /\ [][NextApi]_vars

\* ================================================= calls of configure_logging
NextLog ==
    \/ ConfigureLogging /\ UNCHANGED nonLogVars
    \/ get_logger /\ UNCHANGED nonLogVars

SpecLog == Init /\ [][NextLog]_vars

\* ==================================================== threads on the TokenCache
NextToken ==
    \/ \E t \in Threads : CallGet(t) /\ UNCHANGED nonTokenVars
    \/ \E t \in Threads : \E token \in TokenValues : \E ttl \in TtlValues :
          CallSet(t, token, ttl) /\ UNCHANGED nonTokenVars
    \/ \E t \in Threads : CallGcp(t) /\ UNCHANGED nonTokenVars
    \/ \E t \in Threads : AcquireLock(t) /\ UNCHANGED nonTokenVars
    \/ \E t \in Threads : CheckToken(t) /\ UNCHANGED nonTokenVars
    \/ \E t \in Threads : ReturnToken(t) /\ UNCHANGED nonTokenVars
    \/ \E t \in Threads : \E token \in TokenValues \ {[str |-> ""]} :
          RefreshGives(t, token) /\ UNCHANGED nonTokenVars
    \/ \E t \in Threads : RefreshFails(t) /\ UNCHANGED nonTokenVars
    \/ \E t \in Threads : WriteToken(t) /\ UNCHANGED nonTokenVars
    \/ \E t \in Threads : WriteExpiry(t) /\ UNCHANGED nonTokenVars
    \/ \E t \in Threads : ReturnSet(t) /\ UNCHANGED nonTokenVars
    \/ TokenTick /\ UNCHANGED nonTokenVars

SpecToken == Init /\ [][NextToken]_vars

\* ------------------------------------------------- claims on the status cache

Complete(m) == DOMAIN m = _providers \cup {"_meta"}

\* C1: whatever subset of the providers fails to construct, raises from
\* get_status or times out, a refresh returns a mapping whose keys are
\* exactly the registered provider names plus _meta, and no call ends by
\* raising.
C1_AllProvidersAlwaysPresent ==
    /\ \A c \in Callers : pc[c] # "raised"
    /\ (\E c \in Callers : pc[c] = "done") => Complete(returned)
    /\ \A c \in Callers : pc[c] = "done" /\ ~hitRet[c] /\ retGen[c] = cacheGen
           => Complete(_status_cache)

\* A refresh in which every construction failed has returned.
C1_Witness ==
    /\ \E c \in Callers : pc[c] = "done" /\ ~hitRet[c]
    /\ Complete(returned)
    /\ \A p \in _providers : returned[p] = _fail(p)

\* A freshness check is made in this step (an uncontended call, or a waiter
\* taking the lock).
CheckStep ==
    \/ calls' = calls + 1 /\ lockWaiters' = lockWaiters
    \/ Len(lockWaiters') < Len(lockWaiters)

\* C2: a check made less than 60 s after the stored timestamp returns the
\* cached snapshot itself and probes nothing; a check made 60 s or more
\* after it starts a fresh probe of every provider (a status task for each,
\* get_status invoked on every adapter that could be constructed), and the
\* end of that refresh replaces the snapshot and the timestamp; nothing else
\* ever changes them.
C2_TtlHitThenRefresh ==
    [][ /\ (CheckStep /\ DOMAIN _status_cache # {}
                /\ now - _cache_timestamp < 60)
            => /\ returned' = _status_cache
               /\ probes' = probes /\ refreshes' = refreshes
               /\ UNCHANGED <<_status_cache, _cache_timestamp, cacheGen, task>>
               /\ \E c \in Callers :
                     pc'[c] = "done" /\ hitRet'[c] /\ retGen'[c] = cacheGen
        /\ (CheckStep /\ DOMAIN _status_cache # {}
                /\ now - _cache_timestamp >= 60)
            => /\ refreshes' = refreshes + 1
               /\ \E c \in Callers :
                     /\ pc[c] # "probing" /\ pc'[c] = "probing"
                     /\ myRefresh'[c] = refreshes + 1
                     /\ \A i \in ProvIdx :
                           /\ task'[c][i] # "none"
                           /\ instances'[c][i]
                                => probes'[provider_names[i]]
                                     = probes[provider_names[i]] + 1
        /\ \A c \in Callers :
              (pc[c] = "probing" /\ pc'[c] = "done")
                  => /\ _cache_timestamp' = now
                     /\ cacheGen' = myRefresh[c]
                     /\ _status_cache' = returned' /\ Complete(returned')
        /\ (_status_cache' # _status_cache \/ _cache_timestamp' # _cache_timestamp)
              => \E c \in Callers : pc[c] = "probing" /\ pc'[c] = "done"
      ]_vars

\* A caller holds a hit on the first snapshot and, after the TTL has run
\* out, a second refresh has replaced it.
C2_Witness ==
    /\ refreshes = 2 /\ cacheGen = 2
    /\ _cache_timestamp >= 60
    /\ \E c \in Callers : pc[c] = "done" /\ hitRet[c] /\ retGen[c] = 1

\* C3: callers that arrive while a refresh is in flight never start a second
\* one: refreshes never overlap, each refresh runs one status task per
\* provider (get_status invoked once on each adapter constructed, never
\* twice), and every caller of the batch returns the snapshot of that one
\* refresh.
C3_OneRefreshPerStampede ==
    /\ Cardinality({c \in Callers : pc[c] = "probing"}) <= 1
    /\ \A c \in Callers : pc[c] = "probing" => arrivedDuring[c] = 0
    /\ \A c \in Callers :
          (pc[c] = "done" /\ arrivedDuring[c] > 0)
              => hitRet[c] /\ retGen[c] = arrivedDuring[c]
    /\ \A c \in Callers :
          (pc[c] = "done" /\ ~hitRet[c]) => retGen[c] > 0 /\ retGen[c] <= refreshes
    /\ \A p \in _providers : probes[p] + failed[p] = refreshes

\* Two callers of one batch have both returned the snapshot of refresh 1:
\* the one that ran it and one that arrived while it was in flight.
C3_Witness ==
    \E c, d \in Callers :
        /\ c # d
        /\ pc[c] = "done" /\ ~hitRet[c] /\ retGen[c] = 1
        /\ pc[d] = "done" /\ arrivedDuring[d] = 1 /\ hitRet[d] /\ retGen[d] = 1
        /\ refreshes = 1
        /\ \A p \in _providers : probes[p] = 1

\* C4 as stated: the lock is not held while the probes are in flight.
C4_LockFreeDuringProbes ==
    \A c \in Callers :
        (pc[c] = "probing" /\ \E i \in ProvIdx : task[c][i] = "running")
            => lockHolder # c

\* C4 amended: the lock is held for the whole refresh, the probes included;
\* a caller that arrives while probes are in flight cannot take the lock and
\* waits until the snapshot is written back.
C4_LockHeldThroughRefresh ==
    /\ \A c \in Callers : pc[c] = "probing" => lockHolder = c
    /\ \A c, d \in Callers :
          (pc[c] = "probing" /\ arrivedDuring[d] = myRefresh[c]
              /\ pc[d] \notin {"idle"})
              => (d = c \/ pc[d] = "waiting")
    /\ lockHolder # NoCaller => pc[lockHolder] = "probing"

\* Probes are in flight and another caller is waiting for the lock.
C4_Witness ==
    \E c, d \in Callers :
        /\ pc[c] = "probing" /\ \E i \in ProvIdx : task[c][i] = "running"
        /\ pc[d] = "waiting" /\ arrivedDuring[d] = myRefresh[c]
        /\ lockHolder = c

\* C5: in a finished refresh a provider whose get_status ran into the 20 s
\* timeout has a status with installed = true, authenticated = false and the
\* timed-out error, and every provider whose get_status returned has exactly
\* the value it returned, whatever happened to its siblings.
C5_TimeoutIsolated ==
    /\ (cacheGen > 0 /\ cacheGen = refreshes) =>
          \A p \in _providers :
              /\ lastOutcome[p].kind = "timeout" =>
                    /\ _status_cache[p].installed = TRUE
                    /\ _status_cache[p].authenticated = FALSE
                    /\ _status_cache[p].error
                         = <<"Status check timed out after", "20.0s">>
              /\ lastOutcome[p].kind = "returned" =>
                    _status_cache[p] = lastOutcome[p].value
    /\ \A c \in Callers, i \in ProvIdx :
          (pc[c] = "probing" /\ task[c][i] = "done"
              /\ lastOutcome[provider_names[i]].kind = "returned")
              => results[c][i] = lastOutcome[provider_names[i]].value

\* A stored snapshot in which one probe timed out and a sibling's returned
\* value is kept.
C5_Witness ==
    /\ cacheGen > 0 /\ cacheGen = refreshes
    /\ \E p, q \in _providers :
          /\ lastOutcome[p].kind = "timeout"
          /\ lastOutcome[q].kind = "returned"
          /\ _status_cache[q] = lastOutcome[q].value
          /\ _status_cache[q].authenticated = TRUE
          /\ _status_cache[p] = TimedOutStatus

\* ------------------------------------------------ claims on the orchestrator

Registered(name) == Lower(name) \in _providers

\* The indices of the analyses that ended with a result, in request order.
OkSeq ==
    LET IsOk(i) == analyses[i].outcome.kind = "result"
    IN  SelectSeq([i \in DOMAIN analyses |-> i], IsOk)

\* What a finished analyze call must look like when its fetches raised: no
\* cost data after a failed get_costs, no resource data after a failed
\* get_infrastructure.
Degraded(a, r) ==
    /\ a.costsRaised =>
          /\ r.summary.total_cost = 0
          /\ r.daily_trends = <<>>
          /\ r.cost_drivers = <<>>
    /\ a.infraRaised =>
          /\ r.summary.resource_count = 0
          /\ DOMAIN r.resource_types = {}
          /\ r.running_count = 0

C7_UnknownProviderFails ==
    (req.kind = "analyze" /\ ~Registered(req.names[1])) =>
        /\ analyses[1].pc \in {"created", "done"}
        /\ analyses[1].ctorCalls = 0
        /\ analyses[1].costCalls = 0
        /\ analyses[1].infraCalls = 0
        /\ analyses[1].runs <= 1
        /\ analyses[1].pc = "done" =>
              /\ analyses[1].outcome.kind = "raise"
              /\ analyses[1].outcome.type = "ValueError"
              /\ analyses[1].outcome.error = <<"Unknown provider:", req.names[1]>>
        /\ response # NoOutcome => response = analyses[1].outcome

C7_Witness ==
    /\ req.kind = "analyze" /\ ~Registered(req.names[1])
    /\ response.kind = "raise" /\ response.type = "ValueError"
    /\ analyses[1].ctorCalls = 0

\* C8: aggregate_analysis returns the merge of the results of exactly the
\* requested providers whose analyze did not raise.  A provider whose
\* analyze raised is left out (no zero entry), analyze runs once per
\* requested name, a failure does not keep the others from being analysed
\* and merged, and when all fail the canonical empty result comes back
\* instead of an error.
C8_AggregateExcludesFailures ==
    (req.kind = "aggregate" /\ response # NoOutcome) =>
        LET ok == OkSeq
            val(j) == analyses[ok[j]].outcome.value
        IN  /\ response.kind = "result"
            /\ \A i \in DOMAIN analyses :
                  /\ analyses[i].runs = 1
                  /\ analyses[i].adapter # "none" =>
                        analyses[i].costCalls = 1 /\ analyses[i].infraCalls = 1
            /\ Len(ok) = 0 =>
                  /\ response.value = _empty_result
                  /\ response.value.meta.provider = Str("none")
            /\ Len(ok) = 1 => response.value = val(1)
            /\ Len(ok) >= 2 =>
                  /\ response.value.meta.source_count = str(Len(ok))
                  /\ response.value.summary.providers =
                        [j \in 1..Len(ok) |-> Str(req.names[ok[j]])]
                  /\ response.value.summary.resource_count =
                        SumSeq([j \in 1..Len(ok) |-> val(j).summary.resource_count])
                  /\ response.value.summary.total_cost =
                        Round2(SumSeq([j \in 1..Len(ok) |-> val(j).summary.total_cost]))

C8_Witness ==
    /\ req.kind = "aggregate" /\ Len(req.names) = 2
    /\ response.kind = "result"
    /\ Len(OkSeq) = 1
    /\ \E i \in DOMAIN analyses :
          /\ analyses[i].outcome.kind = "raise"
          /\ Registered(req.names[i])
    /\ response.value.summary.resource_count > 0

\* C9: a request naming an unregistered provider ends in an error raised to
\* the caller; aggregate_analysis given a list containing an unregistered
\* name raises rather than returning a result built from the other names.
C9_UnregisteredNameSurfacesError ==
    (response # NoOutcome /\ \E i \in DOMAIN req.names : ~Registered(req.names[i])) =>
        response.kind = "raise"

\* C10: whatever the order in which the analyses of aggregate_analysis end,
\* their results reach merge in the order the names were requested:
\* meta.provider, the resource list and the other concatenated lists follow
\* request order, and the merged result is determined by the names and what
\* the adapters returned, not by the completion order.
C10_MergeFollowsRequestOrder ==
    (req.kind = "aggregate" /\ response # NoOutcome) =>
        LET ok == OkSeq
            val(j) == analyses[ok[j]].outcome.value
            inRequestOrder == [j \in 1..Len(ok) |-> val(j)]
        IN  /\ response.kind = "result"
            /\ response.value = merge(inRequestOrder)
            /\ Len(ok) >= 2 =>
                  /\ response.value.meta.provider =
                        Concat([j \in 1..Len(ok) |-> Str(req.names[ok[j]])])
                  /\ response.value.resources =
                        Concat([j \in 1..Len(ok) |-> val(j).resources])
                  /\ response.value.high_cost_resources =
                        Concat([j \in 1..Len(ok) |-> val(j).high_cost_resources])

C10_Witness ==
    /\ req.kind = "aggregate" /\ req.names = <<"gcp", "AWS">>
    /\ completion = <<2, 1>>
    /\ response.kind = "result"
    /\ response.value.meta.provider = <<"gcp", "AWS">>
    /\ Len(response.value.resources) = 4
    /\ response.value.resources[1].provider = "gcp"

\* ------------------------------------------------------- claims on merge

Called == fnOutput.kind = "result"

ListFields ==
    {"resources", "daily_trends", "anomalies", "optimizations", "governance_issues",
     "cost_drivers", "high_cost_resources"}

\* C11: merge of an empty list returns the canonical empty result:
\* meta.provider "none", total_cost 0, resource_count 0, and every list field
\* (resources, daily trends, anomalies, optimizations, governance issues, cost
\* drivers, high-cost resources) empty.
C11_EmptyMerge ==
    (Called /\ Len(fnBefore) = 0) =>
        /\ fnOutput.value.meta.provider = Str("none")
        /\ fnOutput.value.summary.total_cost = 0
        /\ fnOutput.value.summary.resource_count = 0
        /\ \A f \in ListFields : Len(fnOutput.value[f]) = 0

C11_Witness == Called /\ Len(fnBefore) = 0 /\ fnOutput.value.meta.type = "empty"

\* C12: merge of a list holding exactly one result x returns x itself, every
\* field unchanged, with no aggregate marker and no provider tags added, for
\* every x.
C12_SinglePassthrough ==
    (Called /\ Len(fnBefore) = 1) =>
        /\ fnOutput.value = fnBefore[1]
        /\ fnInput = fnBefore
        /\ "aggregated" \notin DOMAIN fnOutput.value.trends
        /\ \A j \in 1..Len(fnOutput.value.daily_trends) :
              fnOutput.value.daily_trends[j] = fnBefore[1].daily_trends[j]

C12_Witness ==
    /\ Called /\ Len(fnBefore) = 1
    /\ Len(fnBefore[1].daily_trends) > 0
    /\ fnOutput.value = fnBefore[1]

\* x is y rounded to a whole number of the given step (0.01 is 1000 units).
NearestStep(x, y, step) ==
    /\ x % step = 0
    /\ 2 * (x - y) <= step
    /\ 2 * (y - x) <= step

\* C13: for every list of two or more results, merge yields total_cost equal
\* to the sum of the inputs' total_cost and total_waste equal to the sum of
\* the inputs' total_waste (each rounded to 2 decimals, a missing value
\* counting as 0), a resource list that is the concatenation of the inputs'
\* resource lists in input order, and resource_count equal to its length.
C13_TotalsAndResources ==
    (Called /\ Len(fnBefore) >= 2) =>
        LET n == Len(fnBefore)
            out == fnOutput.value
            cost[i \in 0..n] ==
                IF i = 0 THEN 0
                ELSE cost[i - 1] + (IF "total_cost" \in DOMAIN fnBefore[i].summary
                                    THEN fnBefore[i].summary.total_cost ELSE 0)
            waste[i \in 0..n] ==
                IF i = 0 THEN 0
                ELSE waste[i - 1] + (IF "total_waste" \in DOMAIN fnBefore[i].summary
                                     THEN fnBefore[i].summary.total_waste ELSE 0)
            offset[i \in 0..n] ==
                IF i = 0 THEN 0 ELSE offset[i - 1] + Len(fnBefore[i].resources)
        IN  /\ NearestStep(out.summary.total_cost, cost[n], 1000)
            /\ NearestStep(out.summary.total_waste, waste[n], 1000)
            /\ Len(out.resources) = offset[n]
            /\ \A i \in 1..n : \A j \in 1..Len(fnBefore[i].resources) :
                  out.resources[offset[i - 1] + j] = fnBefore[i].resources[j]
            /\ out.summary.resource_count = Len(out.resources)

C13_Witness ==
    /\ Called /\ Len(fnBefore) = 3
    /\ fnBefore[1] = ResultAws /\ fnBefore[2] = ResultSparse /\ fnBefore[3] = ResultGcp
    /\ fnOutput.value.summary.total_cost = 160 * Unit + 1000
    /\ fnOutput.value.summary.total_waste = 2 * Unit + 1000
    /\ fnOutput.value.summary.resource_count = 4
    /\ fnOutput.value.resources[1].id = "i-1"
    /\ fnOutput.value.resources[4].id = "b-1"

\* The sum of predicted_additional_spend over the non-empty forecasts of the
\* inputs, a forecast without one counting as 0.
PredictedSum ==
    LET n == Len(fnBefore)
        f[i \in 0..n] ==
            IF i = 0 THEN 0
            ELSE f[i - 1] +
                 (IF "predicted_additional_spend" \in DOMAIN fnBefore[i].forecast
                  THEN fnBefore[i].forecast.predicted_additional_spend ELSE 0)
    IN  f[n]

NonEmptyForecasts ==
    Cardinality({i \in 1..Len(fnBefore) : DOMAIN fnBefore[i].forecast # {}})

\* C14 as stated: for every list of two or more results the merged forecast
\* has confidence "low" whatever the inputs' confidences, predicted spend
\* equal to the sum over the inputs whose forecast is non-empty, and
\* source_forecasts equal to the number of those inputs.
C14_ForecastExactSum ==
    (Called /\ Len(fnBefore) >= 2) =>
        /\ fnOutput.value.forecast.confidence = "low"
        /\ fnOutput.value.forecast.predicted_additional_spend = PredictedSum
        /\ fnOutput.value.forecast.source_forecasts = NonEmptyForecasts

\* C14 as the code has it: the merged forecast has confidence "low" whatever
\* the inputs' confidences, predicted spend equal to the sum over the inputs
\* whose forecast is non-empty rounded to 2 decimals, and source_forecasts
\* equal to the number of those inputs.
C14_ForecastRoundedSum ==
    (Called /\ Len(fnBefore) >= 2) =>
        /\ DOMAIN fnOutput.value.forecast =
              {"predicted_additional_spend", "source_forecasts", "confidence"}
        /\ fnOutput.value.forecast.confidence = "low"
        /\ NearestStep(fnOutput.value.forecast.predicted_additional_spend,
                       PredictedSum, 1000)
        /\ fnOutput.value.forecast.source_forecasts = NonEmptyForecasts

C14_Witness ==
    /\ Called
    /\ fnBefore = <<ResultAws, ResultSparse, ResultGcp>>
    /\ fnBefore[1].forecast.confidence = "high"
    /\ fnBefore[2].forecast.confidence = "high"
    /\ DOMAIN fnBefore[3].forecast = {}
    /\ fnOutput.value.forecast.confidence = "low"
    /\ fnOutput.value.forecast.source_forecasts = 2
    /\ fnOutput.value.forecast.predicted_additional_spend = 100 * Unit

\* The provider merge attributes to an input.
ProviderOf(r) == IF "provider" \in DOMAIN r.meta THEN r.meta.provider ELSE Str("unknown")

\* The trend points of all inputs in input order, each carrying the provider
\* of the result it came from.
TaggedTrends ==
    LET n == Len(fnBefore)
        point(i, j) ==
            LET p == fnBefore[i].daily_trends[j]
            IN  [k \in DOMAIN p \cup {"provider"} |->
                    IF k = "provider" THEN ProviderOf(fnBefore[i]) ELSE p[k]]
        f[i \in 0..n] ==
            IF i = 0 THEN <<>>
            ELSE f[i - 1] \o [j \in 1..Len(fnBefore[i].daily_trends) |-> point(i, j)]
    IN  f[n]

\* The date a trend point is sorted by; a point without one sorts first.
DateKey(p) == IF "date" \in DOMAIN p THEN p.date ELSE 0

\* C15: for every list of two or more results and any order of dates in the
\* inputs, the merged daily_trends holds every input trend point exactly
\* once, tagged with the provider of the result it came from, sorted
\* ascending by date; points with equal dates keep input order.
C15_TrendsTaggedAndSorted ==
    (Called /\ Len(fnBefore) >= 2) =>
        LET out == fnOutput.value.daily_trends
            all == TaggedTrends
        IN  /\ Len(out) = Len(all)
            /\ \A a, b \in 1..Len(out) : a < b => DateKey(out[a]) <= DateKey(out[b])
            /\ \A d \in {DateKey(all[k]) : k \in 1..Len(all)} :
                  LET OnDay(p) == DateKey(p) = d
                  IN  SelectSeq(out, OnDay) = SelectSeq(all, OnDay)
            /\ \A k \in 1..Len(out) : "provider" \in DOMAIN out[k]

C15_Witness ==
    /\ Called
    /\ fnBefore = <<ResultAws, ResultSparse>>
    /\ fnBefore[1].daily_trends[1].date > fnBefore[1].daily_trends[2].date
    /\ Len(fnOutput.value.daily_trends) = 4
    /\ "date" \notin DOMAIN fnOutput.value.daily_trends[1]
    /\ fnOutput.value.daily_trends[2] =
          [date |-> 1, amount |-> 3 * Unit + 500, provider |-> Str("aws")]
    /\ fnOutput.value.daily_trends[3] =
          [date |-> 1, amount |-> Unit, provider |-> Str("unknown")]
    /\ fnOutput.value.daily_trends[4].date = 3

\* The cost drivers of all inputs in input order.
AllCostDrivers ==
    LET n == Len(fnBefore)
        f[i \in 0..n] == IF i = 0 THEN <<>> ELSE f[i - 1] \o fnBefore[i].cost_drivers
    IN  f[n]

\* The cost an entry is sorted by; an entry without one counts as 0.
CostKey(e) == IF "cost" \in DOMAIN e THEN e.cost ELSE 0

\* C16 as stated: for every list of two or more results the merged
\* cost_drivers list never exceeds 20 entries and is strictly descending by
\* cost.
C16_DriversStrictlyDescending ==
    (Called /\ Len(fnBefore) >= 2) =>
        LET out == fnOutput.value.cost_drivers
        IN  /\ Len(out) <= 20
            /\ \A a \in 1..Len(out) - 1 : CostKey(out[a]) > CostKey(out[a + 1])

\* C16 as the code has it: the merged cost_drivers list never exceeds 20
\* entries, holds the most expensive entries of the concatenated inputs, and
\* is descending by cost with equal costs allowed: entries of equal cost
\* stay next to each other in input order.
C16_DriversDescendingCapped ==
    (Called /\ Len(fnBefore) >= 2) =>
        LET out == fnOutput.value.cost_drivers
            all == AllCostDrivers
        IN  /\ Len(out) <= 20
            /\ Len(out) = IF Len(all) < 20 THEN Len(all) ELSE 20
            /\ \A a \in 1..Len(out) - 1 : CostKey(out[a]) >= CostKey(out[a + 1])
            /\ \A c \in {CostKey(all[k]) : k \in 1..Len(all)} :
                  LET AtCost(e) == CostKey(e) = c
                      kept == SelectSeq(out, AtCost)
                      given == SelectSeq(all, AtCost)
                  IN  /\ Len(kept) <= Len(given)
                      /\ kept = SubSeq(given, 1, Len(kept))
                      /\ (Len(kept) < Len(given) /\ Len(out) > 0) =>
                            c <= CostKey(out[Len(out)])

C16_Witness ==
    /\ Called
    /\ fnBefore = <<ResultAws, ResultSparse>>
    /\ Len(AllCostDrivers) = 22
    /\ Len(fnOutput.value.cost_drivers) = 20
    /\ fnOutput.value.cost_drivers[1] = [service |-> "s01", cost |-> 11 * Unit]
    /\ fnOutput.value.cost_drivers[2] = [service |-> "s11", cost |-> 11 * Unit]
    /\ fnOutput.value.cost_drivers[20].cost = 2 * Unit

\* The 30-day cost of a high-cost entry.
Cost30d(e) == IF "cost_30d" \in DOMAIN e THEN e.cost_30d ELSE 0

\* C17: when two or more results produced by analyze are merged, the merged
\* high_cost_resources list is sorted descending by each entry's 30-day cost
\* and holds at most 20 entries, the most expensive of the concatenated
\* inputs.
C17_HighCostSortedByCost ==
    (req.kind = "aggregate" /\ response.kind = "result" /\ Len(OkSeq) >= 2) =>
        LET out == response.value.high_cost_resources
            all == Concat([j \in 1..Len(OkSeq) |->
                        analyses[OkSeq[j]].outcome.value.high_cost_resources])
        IN  /\ Len(out) <= 20
            /\ Len(out) = IF Len(all) < 20 THEN Len(all) ELSE 20
            /\ \A a \in 1..Len(out) - 1 : Cost30d(out[a]) >= Cost30d(out[a + 1])
            /\ \A k \in 1..Len(all) :
                  (\E a \in 1..Len(out) : out[a] = all[k])
                  \/ (Len(out) > 0 /\ Cost30d(all[k]) <= Cost30d(out[Len(out)]))

\* C18: for every list of two or more results the merged risk_score is the
\* arithmetic mean of risk_score over exactly the inputs that provided one
\* (an input that provided none adds neither to the sum nor to the count),
\* rounded to 1 decimal, and 0 when no input provided one.
C18_RiskMeanOverProvided ==
    (Called /\ Len(fnBefore) >= 2) =>
        LET n == Len(fnBefore)
            Provided(i) == "risk_score" \in DOMAIN fnBefore[i].executive_summary
            count == Cardinality({i \in 1..n : Provided(i)})
            sum[i \in 0..n] ==
                IF i = 0 THEN 0
                ELSE sum[i - 1] +
                     (IF Provided(i) THEN fnBefore[i].executive_summary.risk_score ELSE 0)
            risk == fnOutput.value.executive_summary.risk_score
        IN  IF count = 0 THEN risk = 0
            ELSE /\ 2 * (risk * count - sum[n]) <= count
                 /\ 2 * (sum[n] - risk * count) <= count

\* C19: merge never mutates its inputs: after it returns, for any number of
\* inputs, every field of every input result equals its value before the
\* call; provider tags are added only to the copies placed in the merged
\* result.
C19_InputsNotMutated ==
    Called =>
        /\ fnInput = fnBefore
        /\ \A i \in 1..Len(fnInput) :
              /\ fnInput[i].meta = fnBefore[i].meta
              /\ fnInput[i].summary = fnBefore[i].summary
              /\ fnInput[i].resources = fnBefore[i].resources
              /\ fnInput[i].cost_drivers = fnBefore[i].cost_drivers
              /\ fnInput[i].resource_types = fnBefore[i].resource_types
              /\ fnInput[i].forecast = fnBefore[i].forecast
              /\ fnInput[i].anomalies = fnBefore[i].anomalies
              /\ fnInput[i].daily_trends = fnBefore[i].daily_trends

C19_Witness ==
    /\ Called
    /\ fnBefore = <<ResultAws, ResultGcp>>
    /\ fnOutput.value.anomalies[1] =
          [id |-> "a1", severity |-> "high", provider |-> Str("aws")]
    /\ fnOutput.value.daily_trends[2].provider = Str("gcp")
    /\ fnInput[1].anomalies[1] = [id |-> "a1", severity |-> "high"]
    /\ "provider" \notin DOMAIN fnInput[2].daily_trends[1]

\* ----------------------------------------------- claims on analyze's result

\* The sum of the cost of the given entries that fall on day d (every entry
\* when d is 0).
CostOn(d) ==
    LET cs == fnBefore.costs
        f[i \in 0..Len(cs)] ==
            IF i = 0 THEN 0
            ELSE f[i - 1] + (IF d = 0 \/ cs[i].timestamp.day = d THEN cs[i].cost ELSE 0)
    IN  f[Len(cs)]

DaysGiven == {fnBefore.costs[i].timestamp.day : i \in 1..Len(fnBefore.costs)}

TrendAmounts ==
    LET t == fnOutput.value.daily_trends
        f[i \in 0..Len(t)] == IF i = 0 THEN 0 ELSE f[i - 1] + t[i].amount
    IN  f[Len(t)]

\* One point per distinct calendar day, in strictly ascending date order.
OnePointPerDay ==
    LET t == fnOutput.value.daily_trends
    IN  /\ {t[k].date : k \in 1..Len(t)} = DaysGiven
        /\ Len(t) = Cardinality(DaysGiven)
        /\ \A k \in 1..Len(t) - 1 : t[k].date < t[k + 1].date

\* C20 as stated: for every list of cost entries returned by the adapter,
\* total_cost equals the sum of all entries' cost, daily_trends has exactly
\* one point per distinct calendar day in strictly ascending date order, each
\* amount is the sum of that day's entries, and the amounts add up to
\* total_cost.
C20_TotalsExact ==
    Called =>
        LET t == fnOutput.value.daily_trends
        IN  /\ fnOutput.value.summary.total_cost = CostOn(0)
            /\ OnePointPerDay
            /\ \A k \in 1..Len(t) : t[k].amount = CostOn(t[k].date)
            /\ TrendAmounts = fnOutput.value.summary.total_cost

\* C20 as the code has it: total_cost is the sum of all entries' cost
\* rounded to 4 decimals, daily_trends has exactly one point per distinct
\* calendar day in strictly ascending date order, each amount is the sum of
\* that day's entries rounded to 4 decimals, and the amounts add up to
\* total_cost to within the rounding of each point and of the total.
C20_TotalsRounded ==
    Called =>
        LET t == fnOutput.value.daily_trends
            total == fnOutput.value.summary.total_cost
        IN  /\ NearestStep(total, CostOn(0), 10)
            /\ OnePointPerDay
            /\ \A k \in 1..Len(t) : NearestStep(t[k].amount, CostOn(t[k].date), 10)
            /\ 2 * (TrendAmounts - total) <= 10 * (Len(t) + 1)
            /\ 2 * (total - TrendAmounts) <= 10 * (Len(t) + 1)

C20_Witness ==
    /\ Called
    /\ Len(fnBefore.costs) = 3
    /\ fnBefore.costs[1].timestamp = [day |-> 2, hour |-> 0]
    /\ fnBefore.costs[2].timestamp = [day |-> 1, hour |-> 3]
    /\ fnBefore.costs[3].timestamp = [day |-> 1, hour |-> 21]
    /\ fnOutput.value.daily_trends =
          << [date |-> 1, amount |-> 60 * Unit + 10], [date |-> 2, amount |-> 0] >>
    /\ fnOutput.value.summary.total_cost = 60 * Unit + 20

\* ------------------------------------------- claims on analyze's resources

\* The spellings of RUNNING, ACTIVE and ONLINE, whatever the case of their
\* letters, among the states resources carry.
RunningSpellings ==
    {"RUNNING", "Running", "running", "ACTIVE", "Active", "active",
     "ONLINE", "Online", "online"}

HistogramTotal ==
    LET h == fnOutput.value.resource_types
        RECURSIVE Total(_)
        Total(ks) == IF ks = {} THEN 0
                     ELSE LET k == CHOOSE x \in ks : TRUE
                          IN  h[k] + Total(ks \ {k})
    IN  Total(DOMAIN h)

ExactAtCents(r) ==
    /\ Get(r.summary, "total_cost", 0) % 1000 = 0
    /\ Get(r.summary, "total_waste", 0) % 1000 = 0

\* C22: merging is associative in the contributing providers: for any
\* results a, b, c, merge([merge([a, b]), c]) and merge([a, b, c]) have the
\* same provider names in the same order in meta.provider, the same
\* total_cost and total_waste when the amounts are exact at 2 decimals, the
\* same resource list, the same resource_types histogram, the same
\* running_count and the same cost_drivers list.
C22_MergeAssociative ==
    Called =>
        LET flat == fnOutput.value
            nested == fnOutput.nested
        IN  /\ nested.meta.provider = flat.meta.provider
            /\ (\A i \in 1..3 : ExactAtCents(fnBefore[i])) =>
                  /\ nested.summary.total_cost = flat.summary.total_cost
                  /\ nested.summary.total_waste = flat.summary.total_waste
            /\ nested.resources = flat.resources
            /\ nested.resource_types = flat.resource_types
            /\ nested.running_count = flat.running_count
            /\ nested.cost_drivers = flat.cost_drivers

C22_Witness ==
    /\ Called
    /\ fnBefore = <<ResultCents, ResultSparse, ResultCents>>
    /\ fnOutput.nested.meta.provider = <<"aws", "unknown", "aws">>
    /\ fnOutput.nested.summary.total_cost = 24 * Unit + 6000
    /\ fnOutput.nested.summary.total_waste = 8 * Unit + 2000
    /\ Len(fnOutput.nested.resources) = 2
    /\ fnOutput.nested.resource_types = [vm |-> 2]
    /\ fnOutput.nested.running_count = 2
    /\ Len(fnOutput.nested.cost_drivers) = MergedListCap
    /\ fnOutput.nested.cost_drivers[1] = [service |-> "s01", cost |-> 11 * Unit]
    /\ fnOutput.nested.cost_drivers[2] = [service |-> "s11", cost |-> 11 * Unit]
    /\ fnOutput.nested.cost_drivers[3] = [service |-> "s01", cost |-> 11 * Unit]

\* --------------------------------------------- claims on the retry wrapper

\* What the wrapped function raises is among the exceptions retried.
RaisesMatching ==
    \/ retryArgs.exceptions = <<"Exception">>
    \/ retryArgs.exceptions = <<retryArgs.raises>>

\* The function fails on its first k calls, k < n, and then succeeds.
FlakyThenOk ==
    /\ RaisesMatching
    /\ retryArgs.fails < retryArgs.max_attempts

\* C23: a function wrapped by retry(max_attempts = n) that raises a matching
\* exception on its first k calls (k < n) and then succeeds returns the
\* successful value, and the wrapped function is called exactly k + 1 times;
\* the sync and the async wrapper alike.
C23_RetryUntilSuccess ==
    /\ [](FlakyThenOk =>
            /\ retryPc # "raised"
            /\ Len(func_calls) <= retryArgs.fails + 1
            /\ retryPc = "returned" =>
                  /\ retryResult.kind = "value"
                  /\ retryResult.value = "ok"
                  /\ Len(func_calls) = retryArgs.fails + 1
                  /\ \A j \in 1..retryArgs.fails : func_calls[j].kind = "exception")
    /\ (FlakyThenOk ~> (retryPc = "returned" /\ Len(func_calls) = retryArgs.fails + 1))

C23_Witness ==
    /\ retryArgs.is_async
    /\ retryArgs.max_attempts = 3
    /\ retryArgs.fails = 2
    /\ retryArgs.exceptions = <<"ValueError">>
    /\ retryArgs.raises = "ValueError"
    /\ retryPc = "returned"
    /\ retryResult.value = "ok"
    /\ Len(func_calls) = 3
    /\ Len(sleeps) = 2

\* The function raises a matching exception on every call the wrapper makes.
AlwaysFails ==
    /\ RaisesMatching
    /\ retryArgs.max_attempts >= 1
    /\ retryArgs.fails >= retryArgs.max_attempts

\* C24: a function wrapped by retry(max_attempts = n, n >= 1) that raises a
\* matching exception on every call is called exactly n times, after which the
\* exception of the last call is raised to the caller; exactly n - 1 waits
\* happen, the i-th lasting delay_seconds * backoff_factor^(i-1), and there is
\* no wait after the final failed attempt.
C24_RetryExhausted ==
    /\ [](AlwaysFails =>
            LET n == retryArgs.max_attempts IN
            /\ retryPc # "returned"
            /\ Len(func_calls) <= n
            /\ Len(sleeps) <= n - 1
            /\ Len(func_calls) = n => retryPc = "raised"
            /\ Len(sleeps) >= 1 => sleeps[1].seconds = retryArgs.delay_seconds
            /\ \A i \in 1..Len(sleeps) - 1 :
                  sleeps[i + 1].seconds = sleeps[i].seconds * retryArgs.backoff_factor
            /\ retryPc = "raised" =>
                  /\ Len(func_calls) = n
                  /\ Len(sleeps) = n - 1
                  /\ retryResult = func_calls[n]
                  /\ retryResult.kind = "exception"
                  /\ retryResult.type = retryArgs.raises
                  /\ retryResult.call = n)
    /\ (AlwaysFails ~> (retryPc = "raised" /\ Len(func_calls) = retryArgs.max_attempts))

C24_Witness ==
    /\ ~retryArgs.is_async
    /\ retryArgs.max_attempts = 3
    /\ retryArgs.fails = 3
    /\ retryArgs.delay_seconds = 1
    /\ retryArgs.backoff_factor = 3
    /\ retryArgs.raises = "RuntimeError"
    /\ retryPc = "raised"
    /\ retryResult = [kind |-> "exception", type |-> "RuntimeError", call |-> 3]
    /\ Len(func_calls) = 3
    /\ sleeps = << [seconds |-> 1, by |-> "time.sleep"],
                   [seconds |-> 3, by |-> "time.sleep"] >>

\* ------------------------------------------------------ claims on chunk_list

\* C25: for every list and every chunk_size >= 1, chunk_list returns chunks
\* whose concatenation in order is the input list, every chunk but possibly
\* the last has exactly chunk_size items, the last has between 1 and
\* chunk_size items, and the empty list yields no chunks.
C25_ChunksPartitionTheList ==
    (fnOutput # NoOutcome /\ fnBefore.chunk_size >= 1) =>
        /\ Called
        /\ LET items == fnBefore.items
               size == fnBefore.chunk_size
               chunks == fnOutput.value
               m == Len(chunks)
           IN  /\ items = <<>> => chunks = <<>>
               /\ \A j \in 1..m - 1 : Len(chunks[j]) = size
               /\ m >= 1 => Len(chunks[m]) \in 1..size
               /\ m >= 1 => (m - 1) * size + Len(chunks[m]) = Len(items)
               /\ m = 0 => items = <<>>
               /\ \A p \in 1..Len(items) :
                     chunks[((p - 1) \div size) + 1][((p - 1) % size) + 1] = items[p]

C25_Witness ==
    /\ Called
    /\ fnBefore = [items |-> <<1, 2, 1, 2, 2>>, chunk_size |-> 2]
    /\ fnOutput.value = << <<1, 2>>, <<1, 2>>, <<2>> >>

\* ------------------------------------------ claims on the status cache, II

\* C26: every call to get_all_statuses eventually returns and releases the
\* cache lock, even when one or more adapters' get_status never completes:
\* each hung probe is ended by its own 20 s timeout, so a later caller waiting
\* on the lock is never blocked forever.
C26_EveryCallReturns ==
    /\ \A c \in Callers :
          (pc[c] \in {"waiting", "probing"}) ~>
              (pc[c] \in {"done", "raised"} /\ lockHolder # c)
    /\ (lockHolder # NoCaller) ~> (lockHolder = NoCaller)
    /\ [][\A c \in Callers, i \in ProvIdx :
            (task[c][i] = "running" /\ task'[c][i] = "done"
                /\ now - t0[c] >= StatusTimeout)
                => /\ results'[c][i] = TimedOutStatus
                   /\ now - t0[c] < StatusTimeout + ClockStep]_vars

\* A caller that waited on the lock while every probe of the refresh before
\* it hung has got its answer.
C26_Witness ==
    \E c \in Callers :
        /\ pc[c] = "done"
        /\ arrivedDuring[c] # 0
        /\ \A p \in _providers : _status_cache[p] = TimedOutStatus
        /\ returned = _status_cache
        /\ lockHolder = NoCaller

\* -------------------------------------------- claims on the orchestrator, II

\* C27: aggregate_analysis starts the analysis of every requested provider
\* before waiting on any of them and returns only after all of them have
\* completed, by result or by exception; if every adapter call eventually
\* returns or raises, aggregate_analysis eventually returns; and a provider
\* that fails early does not make the call return before the remaining
\* providers have finished.
C27_AggregateWaitsForAll ==
    /\ [](req.kind = "aggregate" =>
            /\ Len(analyses) = Len(req.names)
            /\ \A i \in DOMAIN analyses :
                  (analyses[i].costs # NoOutcome \/ analyses[i].infra # NoOutcome
                        \/ analyses[i].outcome.kind = "result")
                     => \A j \in DOMAIN analyses : analyses[j].runs = 1
            /\ response # NoOutcome =>
                  /\ \A i \in DOMAIN analyses :
                        analyses[i].pc = "done" /\ analyses[i].outcome # NoOutcome
                  /\ Len(completion) = Len(req.names))
    /\ (req.kind = "aggregate") ~> (response # NoOutcome)

\* The first provider failed at once, the second was analysed to the end, and
\* only then did the call return.
C27_Witness ==
    /\ req.kind = "aggregate"
    /\ req.names = <<"oracle", "gcp">>
    /\ completion = <<1, 2>>
    /\ analyses[1].outcome.kind = "raise"
    /\ analyses[2].outcome.kind = "result"
    /\ response.kind = "result"
    /\ response.value.meta.provider = Str("gcp")
    /\ Len(response.value.resources) = 3

\* The result analyze builds for adapter a under the name n when both
\* fetches return.
FullAnalysis(n, a) ==
    BuildAnalysis(n, DefaultDays, AdapterCosts(a), AdapterResources(a))

\* C28: in analyze the two fetches are isolated from each other: get_costs
\* and get_infrastructure are both started before either is awaited, and when
\* exactly one of them raises the result still carries the full data of the
\* other: all resources, the histogram and running_count when the costs
\* fail; total_cost, the daily trends and the cost drivers when the
\* infrastructure fails.
C28_FetchesIsolated ==
    \A i \in DOMAIN analyses :
        LET a == analyses[i]
            full == FullAnalysis(req.names[i], a.adapter)
        IN  /\ (a.costs # NoOutcome \/ a.infra # NoOutcome \/ a.pc = "fetching")
                  => a.costCalls = 1 /\ a.infraCalls = 1
            /\ (a.pc = "done" /\ a.costsRaised /\ ~a.infraRaised) =>
                  /\ a.outcome.kind = "result"
                  /\ a.outcome.value.resources = AdapterResources(a.adapter)
                  /\ a.outcome.value.summary.resource_count = Len(AdapterResources(a.adapter))
                  /\ a.outcome.value.resource_types = full.resource_types
                  /\ a.outcome.value.running_count = full.running_count
            /\ (a.pc = "done" /\ a.infraRaised /\ ~a.costsRaised) =>
                  /\ a.outcome.kind = "result"
                  /\ a.outcome.value.summary.total_cost = full.summary.total_cost
                  /\ a.outcome.value.daily_trends = full.daily_trends
                  /\ a.outcome.value.cost_drivers = full.cost_drivers

C28_Witness ==
    /\ req.kind = "analyze"
    /\ req.names = <<"gcp">>
    /\ analyses[1].costsRaised /\ ~analyses[1].infraRaised
    /\ response.kind = "result"
    /\ response.value.summary.total_cost = 0
    /\ response.value.resources = AdapterResources("gcp")
    /\ response.value.resource_types = [vm |-> 1, disk |-> 1, unknown |-> 1]
    /\ response.value.running_count = 1

\* ----------------------------------------- claims on the status cache, III

\* Every provider is constructed in every refresh, and probed when the
\* construction succeeded; no probe result is an exception, and no call ends
\* by raising.
AllConstructedAndProbed ==
    /\ \A c \in Callers : pc[c] # "raised"
    /\ \A c \in Callers, i \in ProvIdx : ~Raises(results[c][i])
    /\ \A p \in _providers : probes[p] + failed[p] = refreshes
    /\ \A c \in Callers :
          pc[c] = "probing" =>
              \A i \in ProvIdx :
                  /\ instances[c][i] => task[c][i] \in {"running", "done"}
                  /\ ~instances[c][i] =>
                        /\ results[c][i].installed = FALSE
                        /\ results[c][i].authenticated = FALSE
                        /\ results[c][i].error
                             = <<"Failed to instantiate", provider_names[i]>>

\* The status of provider index i in the refresh of c is the failure status
\* carrying the text of the exception its get_status raised.
FailureStatusOf(c, i) ==
    /\ results[c][i].installed = FALSE
    /\ results[c][i].authenticated = FALSE
    /\ results[c][i].error = lastOutcome[provider_names[i]].text

\* C29 as stated: safe_status never raises: if the adapter's get_status
\* raises any exception, the returned status has installed = false,
\* authenticated = false and the exception text as error; and in
\* get_all_statuses an adapter whose construction raises gets a synthetic
\* status with installed = false, authenticated = false and an instantiation
\* error, while the other providers are still constructed and probed.
C29_AnyExceptionIsFailureStatus ==
    /\ AllConstructedAndProbed
    /\ \A c \in Callers, i \in ProvIdx :
          (pc[c] = "probing" /\ task[c][i] = "done"
              /\ lastOutcome[provider_names[i]].kind = "raised")
              => FailureStatusOf(c, i)

\* C29 as the code has it: safe_status never raises: if the adapter's
\* get_status raises an exception other than asyncio.TimeoutError, the
\* returned status has installed = false, authenticated = false and the
\* exception text as error; an asyncio.TimeoutError raised by get_status
\* itself gives the timed-out status (installed = true, authenticated =
\* false, the timed-out error); and in get_all_statuses an adapter whose
\* construction raises gets a synthetic status with installed = false,
\* authenticated = false and an instantiation error, while the other
\* providers are still constructed and probed.
C29_ExceptionIsFailureStatus ==
    /\ AllConstructedAndProbed
    /\ \A c \in Callers, i \in ProvIdx :
          (pc[c] = "probing" /\ task[c][i] = "done"
              /\ lastOutcome[provider_names[i]].kind = "raised")
              => IF lastOutcome[provider_names[i]].type = "TimeoutError"
                 THEN /\ results[c][i].installed = TRUE
                      /\ results[c][i].authenticated = FALSE
                      /\ results[c][i].error
                            = <<"Status check timed out after", "20.0s">>
                 ELSE FailureStatusOf(c, i)

\* A stored snapshot: one adapter could not be constructed, one raised from
\* get_status, one returned.
C29_Witness ==
    /\ cacheGen > 0 /\ cacheGen = refreshes
    /\ \E p, q, r \in _providers :
          /\ lastOutcome[p].kind = "unconstructed"
          /\ _status_cache[p] = _fail(p)
          /\ lastOutcome[q].kind = "raised" /\ lastOutcome[q].type = "RuntimeError"
          /\ _status_cache[q].installed = FALSE
          /\ _status_cache[q].authenticated = FALSE
          /\ _status_cache[q].error = <<"boom">>
          /\ lastOutcome[r].kind = "returned"
          /\ _status_cache[r] = lastOutcome[r].value
          /\ probes[r] = 1 /\ probes[q] = 1 /\ failed[p] = 1

\* ------------------------------------------------ claims on merge, metadata

\* The name a result contributes to the merged provider field.
NameOrUnknown(r) ==
    IF "provider" \in DOMAIN r.meta THEN r.meta.provider ELSE <<"unknown">>

\* The names of the inputs one after the other, in input order.
NamesInInputOrder ==
    LET joined[i \in 0..Len(fnBefore)] ==
            IF i = 0 THEN <<>> ELSE joined[i - 1] \o NameOrUnknown(fnBefore[i])
    IN  joined[Len(fnBefore)]

\* v is the number n itself, not a text.
IsTheNumber(v, n) == "str" \notin DOMAIN v /\ v = n

DigitValue(d) == CHOOSE k \in 0..9 : DecimalDigits[k + 1] = d

\* v is a text, the decimal numeral of n.
IsTheNumeral(v, n) ==
    /\ DOMAIN v = {"str"}
    /\ Len(v.str) >= 1
    /\ LET value[i \in 0..Len(v.str)] ==
               IF i = 0 THEN 0 ELSE 10 * value[i - 1] + DigitValue(v.str[i])
       IN  value[Len(v.str)] = n
    /\ Len(v.str) > 1 => v.str[1] # "0"

\* C30 as stated: for every list of two or more results, the merged
\* meta.provider is the inputs' provider names joined by commas in input
\* order (a result without a provider name contributing "unknown"),
\* meta.type is the aggregate marker "multi-cloud-aggregate", and
\* meta.source_count equals the number of inputs.
C30_MetaCountIsNumber ==
    (fnOutput # NoOutcome /\ Len(fnBefore) >= 2) =>
        /\ fnOutput.value.meta.provider = NamesInInputOrder
        /\ fnOutput.value.meta.type = "multi-cloud-aggregate"
        /\ IsTheNumber(fnOutput.value.meta.source_count, Len(fnBefore))

\* C30 as the code has it: for every list of two or more results, the merged
\* meta.provider is the inputs' provider names joined by commas in input
\* order (a result without a provider name contributing "unknown"),
\* meta.type is the aggregate marker "multi-cloud-aggregate", and
\* meta.source_count is the decimal numeral, a text, of the number of inputs.
C30_MetaOfMerge ==
    (fnOutput # NoOutcome /\ Len(fnBefore) >= 2) =>
        /\ fnOutput.value.meta.provider = NamesInInputOrder
        /\ fnOutput.value.meta.type = "multi-cloud-aggregate"
        /\ IsTheNumeral(fnOutput.value.meta.source_count, Len(fnBefore))

\* Three inputs merged, the second without a provider name.
C30_Witness ==
    /\ fnOutput # NoOutcome
    /\ Len(fnBefore) = 3
    /\ NameOrUnknown(fnBefore[1]) = <<"azure">>
    /\ "provider" \notin DOMAIN fnBefore[2].meta
    /\ NameOrUnknown(fnBefore[3]) = <<"gcp">>
    /\ fnOutput.value.meta.provider = <<"azure", "unknown", "gcp">>
    /\ fnOutput.value.meta.type = "multi-cloud-aggregate"
    /\ fnOutput.value.meta.source_count.str = <<"3">>

\* ----------------------------------------------- claims on merge, histogram

\* The count of type t in the histogram of input i, 0 when the type is absent.
CountIn(i, t) ==
    IF t \in DOMAIN fnBefore[i].resource_types
    THEN fnBefore[i].resource_types[t] ELSE 0

\* The total over all inputs of a number taken per input.
TotalOverInputs(perInput) ==
    LET total[i \in 0..Len(fnBefore)] ==
            IF i = 0 THEN 0 ELSE total[i - 1] + perInput[i]
    IN  total[Len(fnBefore)]

\* C31: for every list of two or more results, the merged resource_types
\* histogram maps each type to the sum of that type's counts over all inputs
\* (a type absent from an input counting as 0, and no other keys appearing),
\* and the merged running_count is the sum of the inputs' running_count.
C31_HistogramSummedPerType ==
    (fnOutput # NoOutcome /\ Len(fnBefore) >= 2) =>
        LET h == fnOutput.value.resource_types
            n == Len(fnBefore)
        IN  /\ DOMAIN h = UNION {DOMAIN fnBefore[i].resource_types : i \in 1..n}
            /\ \A t \in DOMAIN h :
                  h[t] = TotalOverInputs([i \in 1..n |-> CountIn(i, t)])
            /\ fnOutput.value.running_count =
                  TotalOverInputs([i \in 1..n |-> fnBefore[i].running_count])

\* Three inputs merged: one type in two of them, one type in only one, one
\* input with an empty histogram.
C31_Witness ==
    /\ fnOutput # NoOutcome
    /\ Len(fnBefore) = 3
    /\ fnBefore[1].resource_types = [sql |-> 1, vm |-> 1]
    /\ DOMAIN fnBefore[2].resource_types = {}
    /\ fnBefore[3].resource_types = [vm |-> 1]
    /\ fnOutput.value.resource_types = [sql |-> 1, vm |-> 2]
    /\ fnOutput.value.running_count = 2

\* ------------------------------------------- claims on analyze's top lists

ServicesGiven == {fnBefore.costs[i].service : i \in 1..Len(fnBefore.costs)}

\* The sum of the cost of the entries of service v.
CostOfService(v) ==
    LET cs == fnBefore.costs
        f[i \in 0..Len(cs)] ==
            IF i = 0 THEN 0
            ELSE f[i - 1] + (IF cs[i].service = v THEN cs[i].cost ELSE 0)
    IN  f[Len(cs)]

\* The list d has one entry per service for as many of the given services as
\* the cap of 10 allows, and is in descending order of cost.
OnePerServiceDescending(d) ==
    /\ Len(d) <= 10
    /\ Len(d) = IF Cardinality(ServicesGiven) < 10
                THEN Cardinality(ServicesGiven) ELSE 10
    /\ \A j \in 1..Len(d) : d[j].service \in ServicesGiven
    /\ \A j, k \in 1..Len(d) : j # k => d[j].service # d[k].service
    /\ \A j \in 1..(Len(d) - 1) : d[j].cost >= d[j + 1].cost

ServicesOmitted(d) == ServicesGiven \ {d[j].service : j \in 1..Len(d)}

\* C32 as stated: for every list of cost entries, the cost_drivers list
\* produced by analyze has at most 10 entries, at most one entry per service,
\* each entry's cost being the sum of that service's entries, in descending
\* order of cost, and it consists of the highest-cost services (no omitted
\* service has a cost greater than a listed one).
C32_DriversExactSums ==
    Called =>
        LET d == fnOutput.value.cost_drivers
        IN  /\ OnePerServiceDescending(d)
            /\ \A j \in 1..Len(d) : d[j].cost = CostOfService(d[j].service)
            /\ \A v \in ServicesOmitted(d) : \A j \in 1..Len(d) :
                  CostOfService(v) <= CostOfService(d[j].service)

\* C32 as the code has it: for every list of cost entries, the cost_drivers
\* list produced by analyze has at most 10 entries, at most one entry per
\* service, each entry's cost being the sum of that service's entries rounded
\* to 4 decimals, in descending order of that rounded cost, and it consists
\* of the services highest in rounded cost: no omitted service has a cost
\* greater than a listed entry's cost by more than the rounding.
C32_DriversRoundedSums ==
    Called =>
        LET d == fnOutput.value.cost_drivers
        IN  /\ OnePerServiceDescending(d)
            /\ \A j \in 1..Len(d) :
                  NearestStep(d[j].cost, CostOfService(d[j].service), 10)
            /\ \A v \in ServicesOmitted(d) : \A j \in 1..Len(d) :
                  2 * (CostOfService(v) - d[j].cost) <= 10

\* Twelve services, eleven of them level: the new service leads the list,
\* the two inserted last among the level ones are omitted.
C32_Witness ==
    /\ Called
    /\ Cardinality(ServicesGiven) = 12
    /\ LET d == fnOutput.value.cost_drivers
       IN  /\ Len(d) = 10
           /\ d[1] = [service |-> "Extra", cost |-> 30 * Unit + 10]
           /\ d[2] = [service |-> "s01", cost |-> Unit]
           /\ d[10] = [service |-> "s09", cost |-> Unit]
           /\ ServicesOmitted(d) = {"s10", "s11"}
           /\ CostOfService("s11") = Unit + 4

\* The positions of the given resources whose 30-day cost is present and
\* strictly greater than 10.
CostlyPositions ==
    {i \in 1..Len(fnBefore.resources) :
        /\ "cost_30d" \in DOMAIN fnBefore.resources[i]
        /\ fnBefore.resources[i].cost_30d > 10 * Unit}

\* C33: for every resource list, the high_cost_resources list produced by
\* analyze contains only resources whose 30-day cost is strictly greater than
\* 10 (a resource with cost exactly 10, cost 0 or no cost is never listed), is
\* sorted descending by 30-day cost, and has at most 20 entries.
C33_HighCostAboveThresholdCapped ==
    Called =>
        LET h == fnOutput.value.high_cost_resources
            rs == fnBefore.resources
        IN  /\ Len(h) <= 20
            /\ Len(h) = IF Cardinality(CostlyPositions) < 20
                        THEN Cardinality(CostlyPositions) ELSE 20
            /\ \A j \in 1..Len(h) :
                  /\ h[j].cost_30d > 10 * Unit
                  /\ \E i \in CostlyPositions :
                        /\ h[j].id = rs[i].id
                        /\ h[j].cost_30d = rs[i].cost_30d
            /\ \A j, k \in 1..Len(h) : j # k => h[j].id # h[k].id
            /\ \A j \in 1..(Len(h) - 1) : h[j].cost_30d >= h[j + 1].cost_30d

\* Twenty-two resources, the first costing exactly 10 and the others more:
\* the twenty most expensive are listed, the most expensive first.
C33_Witness ==
    /\ Called
    /\ Len(fnBefore.resources) = 22
    /\ fnBefore.resources[1].cost_30d = 10 * Unit
    /\ Cardinality(CostlyPositions) = 21
    /\ LET h == fnOutput.value.high_cost_resources
       IN  /\ Len(h) = 20
           /\ h[1].id = "r22" /\ h[1].cost_30d = 31 * Unit
           /\ h[20].id = "r03" /\ h[20].cost_30d = 12 * Unit

\* ---------------------------------------- claims on the status cache, IV

\* d is a complete snapshot: a status for every registered provider, and _meta.
CompleteSnapshot(d) ==
    /\ DOMAIN d = _providers \cup {"_meta"}
    /\ \A p \in _providers :
          {"installed", "authenticated", "error"} \subseteq DOMAIN d[p]
    /\ "elapsed_ms" \in DOMAIN d["_meta"]

EmptyOrComplete(d) == DOMAIN d = {} \/ CompleteSnapshot(d)

\* A refresh completes in this step.
RefreshEnds == \E c \in Callers : pc[c] = "probing" /\ pc'[c] = "done"

\* A call is answered from the cache in this step.
HitAnswered ==
    \E c \in Callers :
        /\ pc[c] # "probing" /\ pc'[c] = "done"
        /\ calls' # calls \/ lockWaiters' # lockWaiters

CacheWrittenOnlyByRefresh ==
    /\ ~RefreshEnds => UNCHANGED <<_status_cache, _cache_timestamp>>
    /\ RefreshEnds =>
          /\ CompleteSnapshot(_status_cache')
          /\ _cache_timestamp' = now'
          /\ cacheGen' # cacheGen
          /\ returned' = _status_cache'
    /\ HitAnswered =>
          /\ UNCHANGED <<_status_cache, _cache_timestamp>>
          /\ returned' = _status_cache
          /\ CompleteSnapshot(returned')

\* C34: in every reachable state the status cache is either empty (never
\* refreshed) or holds a complete snapshot containing every registered
\* provider name plus _meta: the cache and its timestamp are written only
\* together at the end of a completed refresh, a cache hit leaves both
\* unchanged, and no partially collected snapshot is ever visible to a caller.
C34_CacheEmptyOrComplete ==
    /\ [](/\ EmptyOrComplete(_status_cache)
          /\ EmptyOrComplete(returned)
          /\ (DOMAIN _status_cache = {}) <=> (cacheGen = 0)
          /\ cacheGen = 0 => _cache_timestamp = 0)
    /\ [][CacheWrittenOnlyByRefresh]_vars

\* The cache has been refreshed twice and a caller was answered from the
\* first snapshot in between: the second snapshot, just returned, holds a
\* failed construction, a timeout and a returned status.
C34_Witness ==
    /\ cacheGen = 2
    /\ CompleteSnapshot(_status_cache)
    /\ _cache_timestamp > 0
    /\ \E c \in Callers : pc[c] = "done" /\ hitRet[c] /\ retGen[c] = 1
    /\ \E c \in Callers : pc[c] = "done" /\ ~hitRet[c] /\ retGen[c] = 2
    /\ returned = _status_cache
    /\ \E p, q, r \in _providers :
          /\ _status_cache[p] = _fail(p)
          /\ _status_cache[q] = TimedOutStatus
          /\ _status_cache[r] \in AdapterStatuses

\* ------------------------------------------------ claims on gather_with_limit

\* The number of the given coroutines running now.
RunningNow == Cardinality({i \in 1..Len(limited) : limited[i] = "running"})

\* The call has returned one outcome per coroutine in input order, the
\* exception of a coroutine that raised being its outcome, and every
\* coroutine has run to its end.
OneOutcomePerCoroutine ==
    /\ gatherResult.kind = "value"
    /\ Len(gatherResult.value) = Len(gatherArgs.coros)
    /\ \A i \in 1..Len(gatherArgs.coros) :
          /\ limited[i] = "done"
          /\ gatherResult.value[i] =
                IF gatherArgs.coros[i] = "raise"
                THEN [exception |-> i] ELSE [result |-> i]

\* C35 as stated: gather_with_limit(coros, limit) never has more than limit
\* of the given coroutines running at the same time, runs every coroutine to
\* completion, and returns one outcome per coroutine in input order, with a
\* coroutine's exception returned as its outcome rather than raised and
\* without cancelling the others.
C35_GatherAnyLimit ==
    /\ [](gatherPc = "gathering" => RunningNow <= gatherArgs.limit)
    /\ [](gatherPc # "raised")
    /\ [](gatherPc = "returned" => OneOutcomePerCoroutine)
    /\ (gatherPc = "idle") ~> (gatherPc = "returned")

\* C35 as the code has it: for limit >= 1, gather_with_limit(coros, limit)
\* never has more than limit of the given coroutines running at the same
\* time, runs every coroutine to completion, and returns one outcome per
\* coroutine in input order, with a coroutine's exception returned as its
\* outcome rather than raised and without cancelling the others.  With limit
\* 0 and at least one coroutine, no coroutine is ever started and the call
\* never returns; with a negative limit the call raises ValueError and runs
\* nothing.
C35_GatherWithinLimit ==
    /\ [](gatherPc = "gathering" => RunningNow <= gatherArgs.limit)
    /\ [](gatherArgs.limit >= 1 => gatherPc # "raised")
    /\ [](gatherPc = "returned" => OneOutcomePerCoroutine)
    /\ (gatherArgs.limit >= 1 /\ gatherPc = "idle") ~> (gatherPc = "returned")
    /\ []((gatherArgs.limit = 0 /\ Len(gatherArgs.coros) > 0) =>
             (gatherPc # "returned" /\ RunningNow = 0
                /\ \A i \in 1..Len(limited) : limited[i] \in {"created", "waiting"}))
    /\ []((gatherArgs.limit < 0 /\ gatherPc # "idle") =>
             (gatherPc = "raised" /\ gatherResult.type = "ValueError"
                /\ limited = <<>>))

\* Three coroutines under limit 2, the first of which raised: the third was
\* started only then, and the list returned has the exception first.
C35_Witness ==
    /\ gatherArgs = [limit |-> 2, coros |-> <<"raise", "return", "return">>]
    /\ gatherPc = "returned"
    /\ gatherResult.value = <<[exception |-> 1], [result |-> 2], [result |-> 3]>>
    /\ semValue = 2

\* ------------------------------------------------ claims on /api/aggregate

\* The providers parameter holds separators and white space only, so that no
\* piece of it is a non-empty name.
NoProviderName ==
    \A i \in 1..Len(apiArgs.providers) : apiArgs.providers[i] \in {",", " "}

\* C36: the /api/aggregate endpoint rejects a providers parameter that yields
\* no non-empty provider name (e.g. "" or ",,") with HTTP 400 without
\* invoking the orchestrator, and that 400 is not converted into a 500 by the
\* endpoint's generic exception handler.
C36_EmptyProviderListIs400 ==
    (apiPc # "idle" /\ NoProviderName) =>
        /\ apiPc = "responded"
        /\ apiResponse.status = 400
        /\ apiResponse.detail = "No valid providers specified"
        /\ orchestratorCalls = 0
        /\ provider_list = <<>>

\* The request providers=",," has been answered.
C36_Witness ==
    /\ apiArgs.providers = <<",", ",">>
    /\ apiPc = "responded"
    /\ apiResponse.status = 400
    /\ orchestratorCalls = 0

\* ----------------------------------------------- claims on retry, filtering

\* The function raises, from its first call on, an exception whose type is
\* not in the exceptions tuple.
RaisesUnlisted ==
    /\ retryArgs.fails >= 1
    /\ retryArgs.exceptions = <<"ValueError">>
    /\ retryArgs.raises = "RuntimeError"

\* The wrapper has made one call, no wait, and that call's exception is what
\* it raised.
OneCallThenPropagates ==
    /\ Len(func_calls) <= 1
    /\ sleeps = <<>>
    /\ retryPc \in {"idle", "calling", "raised"}
    /\ retryPc = "raised" =>
          /\ Len(func_calls) = 1
          /\ retryResult = func_calls[1]
          /\ retryResult.kind = "exception"
          /\ retryResult.type = "RuntimeError"

\* C38 as stated: a function wrapped by retry that raises an exception whose
\* type is not in the configured exceptions tuple is called exactly once: the
\* exception propagates immediately with no wait and no further attempt,
\* whatever max_attempts is.
C38_UnlistedPropagatesAnyAttempts ==
    /\ [](RaisesUnlisted => OneCallThenPropagates)
    /\ (RaisesUnlisted /\ retryPc = "idle") ~> (retryPc = "raised")

\* C38 as the code has it: for max_attempts >= 1, a function wrapped by retry
\* that raises an exception whose type is not in the configured exceptions
\* tuple is called exactly once: the exception propagates immediately with no
\* wait and no further attempt.  With max_attempts = 0 the function is not
\* called at all and the wrapper raises TypeError.
C38_UnlistedPropagates ==
    /\ []((RaisesUnlisted /\ retryArgs.max_attempts >= 1) => OneCallThenPropagates)
    /\ (RaisesUnlisted /\ retryArgs.max_attempts >= 1 /\ retryPc = "idle")
          ~> (retryPc = "raised")
    /\ []((RaisesUnlisted /\ retryArgs.max_attempts = 0 /\ retryPc # "idle") =>
             /\ func_calls = <<>>
             /\ sleeps = <<>>
             /\ retryPc = "raised"
             /\ retryResult.type = "TypeError")

\* Three attempts allowed, ValueError listed, RuntimeError raised by the first
\* call and passed on.
C38_Witness ==
    /\ retryArgs.max_attempts = 3
    /\ RaisesUnlisted
    /\ retryArgs.fails = 3
    /\ retryPc = "raised"
    /\ Len(func_calls) = 1
    /\ sleeps = <<>>
    /\ retryResult.type = "RuntimeError"

\* ------------------------------------------- claims on configure_logging

\* The opsyield logger has exactly one handler, and it, like the logger's
\* level, is as the first call asked (a level name unknown to the logging
\* module standing for INFO).
AsFirstCallAsked ==
    LET first == logCalls[1].args
    IN  /\ Len(root_handlers) = 1
        /\ root_handlers[1].formatter =
              (IF first.fmt = "json" THEN "StructuredJSONFormatter" ELSE "Formatter")
        /\ root_handlers[1].stream =
              (IF first.stream = "None" THEN "stderr" ELSE first.stream)
        /\ first.level \in {"DEBUG", "INFO", "ERROR"} => root_level = first.level
        /\ first.level = "VERBOSE" => root_level = "INFO"

Checked(t) == threads[t].pc = "get_unlock" \/ threads[t].got

\* The token most recently stored when thread t made its check.
NewestSeen(t) == stored[threads[t].seen]

\* C39: get_valid_token returns None or the token most recently stored, and
\* then the clock it read is before that token's own expiry: the expiry it
\* compared with is the one written by the set_token call that stored the
\* token, never the one of the token before, and no token is returned at or
\* past its expiry.
C39_NoneOrNewestUnexpired ==
    \A t \in Threads :
        Checked(t) =>
            \/ threads[t].cached = None
            \/ /\ threads[t].seen > 0
               /\ threads[t].cached = NewestSeen(t).token
               /\ NewestSeen(t).written
               /\ threads[t].expiry = NewestSeen(t).expiry
               /\ threads[t].now < NewestSeen(t).expiry

\* A second token was stored after the first one's expiry was set; a reader
\* past the first token's expiry and before the second's is given the second.
C39_Witness ==
    \E t \in Threads :
        /\ threads[t].got
        /\ threads[t].seen = 2
        /\ threads[t].cached = [str |-> "t2"]
        /\ stored[1].token = [str |-> "t1"]
        /\ 0 < stored[1].expiry
        /\ stored[1].expiry <= threads[t].now
        /\ threads[t].now < stored[2].expiry

====
